---- MODULE Spec2Model ----
(***************************************************************************)
(* Model of the multi-source data-resolution endpoint of                   *)
(* server/api/imf3.ts: the key-variant generator, the three upstream       *)
(* adapters (IMF DataMapper, World Bank, IMF SDMX), the variant loop of    *)
(* handler and the Express-style wrapper imf3Adapter.                      *)
(*                                                                         *)
(* Strings are sequences of tokens.  A key is a sequence of one-character  *)
(* tokens; a URL is a sequence whose fixed prefixes are longer tokens but  *)
(* whose separators "/", "?" and "&" are always tokens of their own, so    *)
(* that split('/') and split('?') act on it as they do on the JS string.   *)
(***************************************************************************)
EXTENDS Integers, Sequences, FiniteSets, TLC

\* one request in handler
VARIABLES req, pc, keyVariants, idx, attempts, calls, settled, inflight,
          finalData, finalJson, successUrl, response
\* the Dashboard component, the browser's localStorage and clock, and the
\* upstream world its requests are resolved against
VARIABLES selection, effects, chartData, loading, error, localStorage, now,
          upstream, yielded

handlerVars == << req, pc, keyVariants, idx, attempts, calls, settled, inflight,
                  finalData, finalJson, successUrl, response >>

dashVars == << selection, effects, chartData, loading, error, localStorage, now,
               upstream, yielded >>

vars == << handlerVars, dashVars >>

(***************************************************************************)
(* Bounds of the model.                                                    *)
(***************************************************************************)
\* longest key of the character-level enumeration (SpecVariants)
MaxKeyLen == 7
\* most dot-separated segments of a request key (Spec)
MaxSegs == 3

(***************************************************************************)
(* String helpers: the JS built-ins the code uses.                         *)
(***************************************************************************)
\* the first n tokens of s: s.slice(0, n)
Slice0(s, n) == SubSeq(s, 1, IF n < Len(s) THEN n ELSE Len(s))

RECURSIVE SplitFrom(_, _, _, _)
\* s.split(sep) for a one-token separator: never empty, "" gives [""]
SplitFrom(s, sep, i, cur) ==
    IF i > Len(s) THEN << cur >>
    ELSE IF s[i] = sep THEN << cur >> \o SplitFrom(s, sep, i + 1, << >>)
    ELSE SplitFrom(s, sep, i + 1, Append(cur, s[i]))

Split(s, sep) == SplitFrom(s, sep, 1, << >>)

RECURSIVE Join(_, _)
\* parts.join(sep)
Join(parts, sep) ==
    IF Len(parts) = 0 THEN << >>
    ELSE IF Len(parts) = 1 THEN parts[1]
    ELSE parts[1] \o << sep >> \o Join(Tail(parts), sep)

RECURSIVE DedupeFrom(_, _, _)
\* [...new Set(list)]: the first occurrence of each element, in order
DedupeFrom(list, i, acc) ==
    IF i > Len(list) THEN acc
    ELSE IF \E j \in 1..Len(acc) : acc[j] = list[i]
         THEN DedupeFrom(list, i + 1, acc)
         ELSE DedupeFrom(list, i + 1, Append(acc, list[i]))

Dedupe(list) == DedupeFrom(list, 1, << >>)

(***************************************************************************)
(* generateKeyVariants (server/api/imf3.ts:156-195)                        *)
(***************************************************************************)
\* the variants pushed for a 2-segment key area.indicator, in push order
TwoPartVariants(parts) ==
    LET area == parts[1]
        indicator == parts[2]
    IN  (IF Len(area) = 3
         THEN << << "A", "." >> \o Slice0(area, 2) \o << "." >> \o indicator >>
         ELSE << >>)
        \o << << "A", "." >> \o area \o << "." >> \o indicator,
              area \o << "." >> \o indicator \o << ".", "A" >>,
              indicator \o << "." >> \o area >>
        \o (IF Len(area) = 2
            THEN << area \o << "S", "." >> \o indicator,
                    area \o << "A", "." >> \o indicator >>
            ELSE << >>)

\* a mutated shortening: the 3-letter area loses its first letter, not its last
ShortenedAreaVariantTail(f, area, indicator) ==
    IF Len(area) = 3
    THEN << Join(<< f, SubSeq(area, 2, 3), indicator >>, ".") >>
    ELSE << >>

\* the 2-letter variant of a 3-segment key with a 3-letter area (lines 178-181)
ShortenedAreaVariant(f, area, indicator) ==
    IF Len(area) = 3
    THEN << Join(<< f, Slice0(area, 2), indicator >>, ".") >>
    ELSE << >>

\* a mutated 3-segment branch: the variant without frequency is pushed first
ThreePartVariantsDroppedFirst(parts) ==
    LET f == parts[1]
        area == parts[2]
        indicator == parts[3]
    IN  << Join(<< area, indicator >>, ".") >>
        \o ShortenedAreaVariant(f, area, indicator)
        \o (IF Len(area) = 2
            THEN << Join(<< f, Append(area, "A"), indicator >>, "."),
                    Join(<< f, Append(area, "S"), indicator >>, ".") >>
            ELSE << >>)
        \o << Join(<< f, indicator, area >>, "."),
              Join(<< area, indicator, f >>, ".") >>

\* the variants pushed for a 3-segment key f.area.indicator, in push order
ThreePartVariants(parts) ==
    LET f == parts[1]
        area == parts[2]
        indicator == parts[3]
    IN  ShortenedAreaVariant(f, area, indicator)
        \o (IF Len(area) = 2
            THEN << Join(<< f, Append(area, "A"), indicator >>, "."),
                    Join(<< f, Append(area, "S"), indicator >>, ".") >>
            ELSE << >>)
        \o << Join(<< f, indicator, area >>, "."),
              Join(<< area, indicator, f >>, "."),
              Join(<< area, indicator >>, ".") >>

\* a mutated generator: the variant list is returned without de-duplication
generateKeyVariantsNoDedupe(key) ==
    LET parts == Split(key, ".")
    IN  << key >> \o (IF Len(parts) = 2 THEN TwoPartVariants(parts)
                      ELSE IF Len(parts) = 3 THEN ThreePartVariants(parts)
                      ELSE << >>)

generateKeyVariants(key) ==
    LET parts == Split(key, ".")
    IN  Dedupe(<< key >> \o (IF Len(parts) = 2 THEN TwoPartVariants(parts)
                             ELSE IF Len(parts) = 3 THEN ThreePartVariants(parts)
                             ELSE << >>))

(***************************************************************************)
(* JSON values.  Every value carries its JS type in the field t.           *)
(***************************************************************************)
Undefined == [t |-> "undefined"]
Null == [t |-> "null"]
NaN == [t |-> "nan"]
Num(n) == [t |-> "num", n |-> n]
Str(s) == [t |-> "str", s |-> s]
Arr(items) == [t |-> "arr", items |-> items]
Obj(f) == [t |-> "obj", f |-> f]

IsNullish(v) == v.t \in {"undefined", "null"}

\* JS truthiness: undefined, null, NaN, 0 and "" are falsy
Truthy(v) ==
    CASE v.t \in {"undefined", "null", "nan"} -> FALSE
      [] v.t = "num" -> v.n # 0
      [] v.t = "str" -> Len(v.s) > 0
      [] OTHER -> TRUE

\* v[name] for a value that is not null or undefined
Get(v, name) ==
    IF v.t = "obj" /\ name \in DOMAIN v.f THEN v.f[name] ELSE Undefined

RECURSIVE Coalesce(_, _, _)
\* o[f1] ?? o[f2] ?? ... ?? default
Coalesce(o, fields, default) ==
    IF Len(fields) = 0 THEN default
    ELSE IF ~IsNullish(Get(o, Head(fields))) THEN Get(o, Head(fields))
    ELSE Coalesce(o, Tail(fields), default)

Digits == << "0", "1", "2", "3", "4", "5", "6", "7", "8", "9" >>
IsDigit(c) == \E d \in 1..10 : Digits[d] = c
DigitValue(c) == (CHOOSE d \in 1..10 : Digits[d] = c) - 1

RECURSIVE DigitsValue(_, _)
\* the number written by the first n tokens of s, all of them digits
DigitsValue(s, n) ==
    IF n = 0 THEN 0 ELSE 10 * DigitsValue(s, n - 1) + DigitValue(s[n])

RECURSIVE LeadingDigits(_, _)
\* how many digits s starts with, counted from position i
LeadingDigits(s, i) ==
    IF i > Len(s) \/ ~IsDigit(s[i]) THEN i - 1 ELSE LeadingDigits(s, i + 1)

\* parseInt(s) of a string without sign or blanks: its leading digits, else NaN
ParseInt(s) ==
    LET n == LeadingDigits(s, 1)
    IN  IF n = 0 THEN NaN ELSE Num(DigitsValue(s, n))

\* Number(v) for the scalars of the model: a digit string is its number,
\* any other non-empty string is NaN
ToNumber(v) ==
    CASE v.t = "num" -> v
      [] v.t = "str" -> IF Len(v.s) = 0 THEN Num(0)
                        ELSE IF LeadingDigits(v.s, 1) = Len(v.s)
                             THEN Num(DigitsValue(v.s, Len(v.s)))
                             ELSE NaN
      [] v.t = "null" -> Num(0)
      [] OTHER -> NaN

\* parseFloat(v) for the scalars of the model
ParseFloat(v) ==
    CASE v.t = "num" -> v
      [] v.t = "str" -> ParseInt(v.s)
      [] OTHER -> NaN

RECURSIVE NatToString(_)
NatToString(n) ==
    IF n < 10 THEN << Digits[n + 1] >>
    ELSE Append(NatToString(n \div 10), Digits[(n % 10) + 1])

\* String(v)
JsString(v) ==
    CASE v.t = "str" -> v.s
      [] v.t = "num" -> NatToString(v.n)
      [] v.t = "null" -> << "n", "u", "l", "l" >>
      [] v.t = "nan" -> << "N", "a", "N" >>
      [] OTHER -> << "u", "n", "d", "e", "f", "i", "n", "e", "d" >>

\* the collation rank of a character of a date string
CharRank(c) ==
    IF c = "-" THEN 0 ELSE IF IsDigit(c) THEN 1 + DigitValue(c) ELSE 11

RECURSIVE LocaleCompare(_, _)
\* a.localeCompare(b) for date strings: negative, zero or positive
LocaleCompare(a, b) ==
    IF Len(a) = 0 THEN (IF Len(b) = 0 THEN 0 ELSE -1)
    ELSE IF Len(b) = 0 THEN 1
    ELSE IF CharRank(Head(a)) # CharRank(Head(b))
         THEN CharRank(Head(a)) - CharRank(Head(b))
    ELSE LocaleCompare(Tail(a), Tail(b))

RECURSIVE InsertByDate(_, _)
InsertByDate(sorted, p) ==
    IF Len(sorted) = 0 THEN << p >>
    ELSE IF LocaleCompare(sorted[Len(sorted)].date, p.date) <= 0
         THEN Append(sorted, p)
    ELSE Append(InsertByDate(SubSeq(sorted, 1, Len(sorted) - 1), p),
                sorted[Len(sorted)])

RECURSIVE SortByDate(_)
\* points.sort((a, b) => a.date.localeCompare(b.date)): stable
SortByDate(points) ==
    IF Len(points) = 0 THEN << >>
    ELSE InsertByDate(SortByDate(SubSeq(points, 1, Len(points) - 1)),
                      points[Len(points)])

(***************************************************************************)
(* normalizeData (server/api/imf3.ts:87-146)                               *)
(***************************************************************************)
\* one pushed point: date from the first date field present, value from the
\* first value field present, a non-finite value becoming null
PointOf(o, dateFields, valueFields) ==
    LET date == Coalesce(o, dateFields, Str(<< >>))
        raw == Coalesce(o, valueFields, Null)
        num == IF raw = Null \/ raw = Str(<< >>) THEN Null ELSE ToNumber(raw)
    IN  [date |-> JsString(date), value |-> IF num.t = "num" THEN num ELSE Null]

RECURSIVE ParseObs(_, _, _, _, _)
\* the for-loop over observations: a null observation throws, and what was
\* pushed before it stays in results
ParseObs(obs, i, results, dateFields, valueFields) ==
    IF i > Len(obs) THEN [threw |-> FALSE, results |-> results]
    ELSE IF IsNullish(obs[i]) THEN [threw |-> TRUE, results |-> results]
    ELSE ParseObs(obs, i + 1,
                  Append(results, PointOf(obs[i], dateFields, valueFields)),
                  dateFields, valueFields)

\* Array.isArray(node) ? node : (node ? [node] : [])
AsArray(node) ==
    IF node.t = "arr" THEN node.items
    ELSE IF Truthy(node) THEN << node >> ELSE << >>

RECURSIVE ParseSeries(_, _, _)
\* the for-loop over series of the CompactData shape (lines 100-109)
ParseSeries(series, i, results) ==
    IF i > Len(series) THEN [threw |-> FALSE, results |-> results]
    ELSE IF IsNullish(series[i]) THEN [threw |-> TRUE, results |-> results]
    ELSE LET obsNode == Coalesce(series[i],
                                 << "Obs", "OBS", "ObsArray", "OBSERVATIONS" >>,
                                 Undefined)
             r == ParseObs(AsArray(obsNode), 1, results,
                           << "@TIME_PERIOD", "TIME_PERIOD", "time", "TIME" >>,
                           << "@OBS_VALUE", "OBS_VALUE", "OBS" >>)
         IN  IF r.threw THEN r ELSE ParseSeries(series, i + 1, r.results)

\* the first try block (lines 95-116): returned says the block returned
CompactStage(json, results) ==
    LET compact == Get(json, "CompactData")
    IN  IF Truthy(compact) /\ Truthy(Get(compact, "DataSet"))
        THEN LET r == ParseSeries(AsArray(Get(Get(compact, "DataSet"), "Series")),
                                  1, results)
             IN  [returned |-> ~r.threw, results |-> r.results]
        ELSE [returned |-> FALSE, results |-> results]

\* the second try block (lines 119-142)
AlternateStage(json, results) ==
    IF Get(json, "observations").t = "arr"
    THEN LET r == ParseObs(Get(json, "observations").items, 1, results,
                           << "time", "year", "date", "TIME_PERIOD" >>,
                           << "value", "OBS_VALUE" >>)
         IN  [returned |-> ~r.threw, results |-> r.results]
    ELSE IF Get(json, "data").t = "arr"
    THEN LET r == ParseObs(Get(json, "data").items, 1, results,
                           << "time", "date", "year" >>,
                           << "value", "Value" >>)
         IN  [returned |-> ~r.threw, results |-> r.results]
    ELSE [returned |-> FALSE, results |-> results]

normalizeData(json) ==
    IF ~Truthy(json) THEN << >>
    ELSE LET c == CompactStage(json, << >>)
         IN  IF c.returned THEN SortByDate(c.results)
             ELSE LET a == AlternateStage(json, c.results)
                  IN  IF a.returned THEN SortByDate(a.results) ELSE a.results

(***************************************************************************)
(* URL building (server/api/imf3.ts:32-60)                                 *)
(***************************************************************************)
BASE == << "https:", "/", "/", "api.imf.org", "/", "external", "/", "sdmx", "/", "2.1" >>
DATAMAPPER_BASE ==
    << "https:", "/", "/", "www.imf.org", "/", "external", "/", "datamapper",
       "/", "api", "/", "v1" >>

\* the characters of the model that encodeURIComponent escapes; every other
\* character of the model (letters, digits, ".", "-", "_") is left as it is
PercentEscapes ==
    ("+" :> "%2B") @@ (" " :> "%20") @@ ("/" :> "%2F") @@ ("?" :> "%3F") @@
    ("&" :> "%26") @@ ("=" :> "%3D") @@ (":" :> "%3A")

RECURSIVE encodeURIComponent(_)
encodeURIComponent(s) ==
    IF Len(s) = 0 THEN << >>
    ELSE << IF Head(s) \in DOMAIN PercentEscapes THEN PercentEscapes[Head(s)]
            ELSE Head(s) >> \o encodeURIComponent(Tail(s))

RECURSIVE formEncode(_)
\* URLSearchParams.toString() on one value: as above, but a blank becomes "+"
formEncode(s) ==
    IF Len(s) = 0 THEN << >>
    ELSE << IF Head(s) = " " THEN "+"
            ELSE IF Head(s) \in DOMAIN PercentEscapes THEN PercentEscapes[Head(s)]
            ELSE Head(s) >> \o formEncode(Tail(s))

RECURSIVE QueryString(_)
\* qp.toString() after Object.entries(query).forEach(([k,v]) => { if (v) qp.set(k, v) })
QueryString(query) ==
    IF Len(query) = 0 THEN << >>
    ELSE LET rest == QueryString(Tail(query))
             k == Head(query)[1]
             v == Head(query)[2]
         IN  IF ~Truthy(v) THEN rest
             ELSE << k, "=" >> \o formEncode(v.s)
                  \o (IF Len(rest) = 0 THEN << >> ELSE << "&" >> \o rest)

\* the query object of line 381
QueryOf(r) ==
    << << "startPeriod", r.startPeriod >>, << "endPeriod", r.endPeriod >>,
       << "updatedAfter", r.updatedAfter >>, << "mode", r.mode >>,
       << "references", r.references >> >>

WithQuery(path, query) ==
    IF Len(QueryString(query)) > 0 THEN path \o << "?" >> \o QueryString(query)
    ELSE path

buildDataUrl(flowRef, key, query) ==
    WithQuery(BASE \o << "/", "data", "/" >> \o encodeURIComponent(flowRef)
              \o << "/" >> \o encodeURIComponent(key), query)

buildAvailableConstraintUrl(flowRef, key, providerRef, componentID, query) ==
    WithQuery(BASE \o << "/", "availableconstraint", "/" >>
              \o encodeURIComponent(flowRef) \o << "/" >> \o encodeURIComponent(key)
              \o << "/" >> \o encodeURIComponent(providerRef)
              \o << "/" >> \o encodeURIComponent(componentID), query)

\* successUrl.split('/').pop()?.split('?')[0] || providedKey (line 455)
MetaKeyOf(url, providedKey) ==
    LET segments == Split(url, "/")
        last == Split(segments[Len(segments)], "?")[1]
    IN  IF Len(last) > 0 THEN last ELSE providedKey

(***************************************************************************)
(* Country codes (server/api/imf3.ts:229-242 and 301-314)                  *)
(***************************************************************************)
LowerCase == << "a", "b", "c", "d", "e", "f", "g", "h", "i", "j", "k", "l", "m",
                "n", "o", "p", "q", "r", "s", "t", "u", "v", "w", "x", "y", "z" >>
UpperCase == << "A", "B", "C", "D", "E", "F", "G", "H", "I", "J", "K", "L", "M",
                "N", "O", "P", "Q", "R", "S", "T", "U", "V", "W", "X", "Y", "Z" >>

toUpperCase(s) ==
    [i \in 1..Len(s) |->
        IF \E j \in 1..Len(LowerCase) : LowerCase[j] = s[i]
        THEN UpperCase[CHOOSE j \in 1..Len(LowerCase) : LowerCase[j] = s[i]]
        ELSE s[i]]

iso2to3 ==
    (<< "U", "S" >> :> << "U", "S", "A" >>) @@
    (<< "G", "B" >> :> << "G", "B", "R" >>) @@
    (<< "D", "E" >> :> << "D", "E", "U" >>) @@
    (<< "F", "R" >> :> << "F", "R", "A" >>) @@
    (<< "I", "T" >> :> << "I", "T", "A" >>) @@
    (<< "E", "S" >> :> << "E", "S", "P" >>) @@
    (<< "J", "P" >> :> << "J", "P", "N" >>) @@
    (<< "C", "N" >> :> << "C", "H", "N" >>) @@
    (<< "I", "N" >> :> << "I", "N", "D" >>) @@
    (<< "B", "R" >> :> << "B", "R", "A" >>) @@
    (<< "R", "U" >> :> << "R", "U", "S" >>) @@
    (<< "C", "A" >> :> << "C", "A", "N" >>) @@
    (<< "A", "U" >> :> << "A", "U", "S" >>) @@
    (<< "M", "X" >> :> << "M", "E", "X" >>) @@
    (<< "K", "R" >> :> << "K", "O", "R" >>) @@
    (<< "I", "D" >> :> << "I", "D", "N" >>) @@
    (<< "T", "R" >> :> << "T", "U", "R" >>) @@
    (<< "S", "A" >> :> << "S", "A", "U" >>) @@
    (<< "A", "R" >> :> << "A", "R", "G" >>) @@
    (<< "Z", "A" >> :> << "Z", "A", "F" >>) @@
    (<< "N", "G" >> :> << "N", "G", "A" >>) @@
    (<< "E", "G" >> :> << "E", "G", "Y" >>) @@
    (<< "P", "K" >> :> << "P", "A", "K" >>) @@
    (<< "B", "D" >> :> << "B", "G", "D" >>) @@
    (<< "V", "N" >> :> << "V", "N", "M" >>) @@
    (<< "P", "H" >> :> << "P", "H", "L" >>) @@
    (<< "T", "H" >> :> << "T", "H", "A" >>) @@
    (<< "M", "Y" >> :> << "M", "Y", "S" >>) @@
    (<< "S", "G" >> :> << "S", "G", "P" >>) @@
    (<< "N", "L" >> :> << "N", "L", "D" >>) @@
    (<< "B", "E" >> :> << "B", "E", "L" >>) @@
    (<< "C", "H" >> :> << "C", "H", "E" >>) @@
    (<< "S", "E" >> :> << "S", "W", "E" >>) @@
    (<< "N", "O" >> :> << "N", "O", "R" >>) @@
    (<< "D", "K" >> :> << "D", "N", "K" >>) @@
    (<< "F", "I" >> :> << "F", "I", "N" >>) @@
    (<< "P", "L" >> :> << "P", "O", "L" >>) @@
    (<< "A", "T" >> :> << "A", "U", "T" >>) @@
    (<< "C", "Z" >> :> << "C", "Z", "E" >>) @@
    (<< "H", "U" >> :> << "H", "U", "N" >>) @@
    (<< "R", "O" >> :> << "R", "O", "U" >>) @@
    (<< "G", "R" >> :> << "G", "R", "C" >>) @@
    (<< "P", "T" >> :> << "P", "R", "T" >>) @@
    (<< "I", "E" >> :> << "I", "R", "L" >>) @@
    (<< "N", "Z" >> :> << "N", "Z", "L" >>) @@
    (<< "I", "L" >> :> << "I", "S", "R" >>) @@
    (<< "C", "L" >> :> << "C", "H", "L" >>) @@
    (<< "C", "O" >> :> << "C", "O", "L" >>) @@
    (<< "P", "E" >> :> << "P", "E", "R" >>) @@
    (<< "V", "E" >> :> << "V", "E", "N" >>) @@
    (<< "E", "C" >> :> << "E", "C", "U" >>) @@
    (<< "U", "A" >> :> << "U", "K", "R" >>) @@
    (<< "I", "Q" >> :> << "I", "R", "Q" >>) @@
    (<< "I", "R" >> :> << "I", "R", "N" >>) @@
    (<< "D", "Z" >> :> << "D", "Z", "A" >>) @@
    (<< "M", "A" >> :> << "M", "A", "R" >>) @@
    (<< "T", "N" >> :> << "T", "U", "N" >>) @@
    (<< "K", "E" >> :> << "K", "E", "N" >>) @@
    (<< "E", "T" >> :> << "E", "T", "H" >>) @@
    (<< "G", "H" >> :> << "G", "H", "A" >>) @@
    (<< "L", "K" >> :> << "L", "K", "A" >>) @@
    (<< "N", "P" >> :> << "N", "P", "L" >>) @@
    (<< "A", "F" >> :> << "A", "F", "G" >>) @@
    (<< "M", "M" >> :> << "M", "M", "R" >>) @@
    (<< "K", "H" >> :> << "K", "H", "M" >>) @@
    (<< "L", "A" >> :> << "L", "A", "O" >>)

\* a mutated lookup: a code without an entry becomes the default country
Iso3OrDefault(code, fallback) ==
    IF code \in DOMAIN iso2to3 THEN iso2to3[code] ELSE << "U", "S", "A" >>

\* iso2to3[code] || fallback
Iso3Or(code, fallback) ==
    IF code \in DOMAIN iso2to3 THEN iso2to3[code] ELSE fallback

(***************************************************************************)
(* Upstream behaviour: what one fetch can do.                              *)
(***************************************************************************)
\* fetch rejects (DNS, connection reset, ...)
NetworkError == [kind |-> "neterr"]
\* a response with res.ok false
HttpError(status) ==
    [kind |-> "http", ok |-> FALSE, status |-> status, parses |-> FALSE,
     json |-> Undefined, text |-> << "upstream error" >>]
\* a response with res.ok true whose body is the JSON text of json
HttpOk(json) ==
    [kind |-> "http", ok |-> TRUE, status |-> "200", parses |-> TRUE,
     json |-> json, text |-> << >>]
\* a response with res.ok true whose body is not JSON (XML, HTML)
HttpOkText ==
    [kind |-> "http", ok |-> TRUE, status |-> "200", parses |-> FALSE,
     json |-> Undefined, text |-> << "<xml/>" >>]

\* a mutated fetchResource: a body that is not JSON is not wrapped, the parse
\* error is thrown
fetchResourceNoWrap(outcome) ==
    IF outcome.kind = "neterr"
    THEN [threw |-> TRUE, error |-> << "fetch failed" >>, json |-> Undefined]
    ELSE IF ~outcome.ok
    THEN [threw |-> TRUE,
          error |-> << "HTTP ", outcome.status, ": " >> \o outcome.text,
          json |-> Undefined]
    ELSE IF outcome.parses
    THEN [threw |-> FALSE, error |-> << >>, json |-> outcome.json]
    ELSE [threw |-> TRUE, error |-> << "Unexpected token < in JSON" >>,
          json |-> Undefined]

\* fetchResource (lines 62-85): throws on a rejected fetch and on a non-OK
\* status, wraps a body that is not JSON as { raw: text }
fetchResource(outcome) ==
    IF outcome.kind = "neterr"
    THEN [threw |-> TRUE, error |-> << "fetch failed" >>, json |-> Undefined]
    ELSE IF ~outcome.ok
    THEN [threw |-> TRUE,
          error |-> << "HTTP ", outcome.status, ": " >> \o outcome.text,
          json |-> Undefined]
    ELSE IF outcome.parses
    THEN [threw |-> FALSE, error |-> << >>, json |-> outcome.json]
    ELSE [threw |-> FALSE, error |-> << >>,
          json |-> Obj("raw" :> Str(outcome.text))]

\* fetch + res.ok check + res.json() of the DataMapper and World Bank paths
\* (lines 247-253 and 325-329): a body that is not JSON makes res.json() throw
fetchJson(outcome) ==
    IF outcome.kind = "neterr"
    THEN [threw |-> TRUE, error |-> << "fetch failed" >>, json |-> Undefined]
    ELSE IF ~outcome.ok
    THEN [threw |-> TRUE, error |-> << "HTTP ", outcome.status >>, json |-> Undefined]
    ELSE IF outcome.parses
    THEN [threw |-> FALSE, error |-> << >>, json |-> outcome.json]
    ELSE [threw |-> TRUE, error |-> << "Unexpected token < in JSON" >>,
          json |-> Undefined]

(***************************************************************************)
(* The DataMapper path of handler (lines 222-289)                          *)
(***************************************************************************)
IsFlow(r, name) == toUpperCase(r.flowRef) = name
WEO == << "W", "E", "O" >>
WORLDBANK == << "W", "O", "R", "L", "D", "B", "A", "N", "K" >>

DmCountryCode(key) ==
    LET keyParts == Split(key, ".")
    IN  IF Len(keyParts) = 3 THEN keyParts[2]
        ELSE IF Len(keyParts) = 2 THEN keyParts[1]
        ELSE << "U", "S" >>

DmIndicator(key) == LET keyParts == Split(key, ".") IN keyParts[Len(keyParts)]

DmCountry3(key) == Iso3Or(toUpperCase(DmCountryCode(key)), DmCountryCode(key))

dmUrl(key) == DATAMAPPER_BASE \o << "/" >> \o DmIndicator(key) \o << "/" >> \o DmCountry3(key)

\* v?.[name]
OptGet(v, name) == IF IsNullish(v) THEN Undefined ELSE Get(v, name)

RECURSIVE EntriesOf(_, _)
\* the entries of an object whose keys are all integer-like, which
\* Object.entries lists in ascending numeric order
EntriesOf(f, keys) ==
    IF keys = {} THEN << >>
    ELSE LET k == CHOOSE x \in keys :
                    \A y \in keys : DigitsValue(x, Len(x)) <= DigitsValue(y, Len(y))
         IN  << << k, f[k] >> >> \o EntriesOf(f, keys \ {k})

ObjectEntries(v) ==
    IF v.t = "arr" THEN [i \in 1..Len(v.items) |-> << NatToString(i - 1), v.items[i] >>]
    ELSE EntriesOf(v.f, DOMAIN v.f)

\* a >= b and a <= b on numbers: false as soon as one side is NaN
Geq(a, b) == a.t = "num" /\ b.t = "num" /\ a.n >= b.n
Leq(a, b) == a.t = "num" /\ b.t = "num" /\ a.n <= b.n

\* the first year of the window when startPeriod is absent (line 262)
DefaultStartYear == 0
\* the last year of the window when endPeriod is absent (line 263)
DefaultEndYear == 9999

\* lines 265-272: entries to points, null values and years outside the
\* window dropped, sorted by date
DmPoints(values, startPeriod, endPeriod) ==
    LET startYear == IF Truthy(startPeriod) THEN ParseInt(startPeriod.s)
                     ELSE Num(DefaultStartYear)
        endYear == IF Truthy(endPeriod) THEN ParseInt(endPeriod.s)
                   ELSE Num(DefaultEndYear)
        entries == ObjectEntries(values)
        mapped == [i \in 1..Len(entries) |->
                     [date |-> entries[i][1],
                      value |-> IF entries[i][2].t = "num" THEN entries[i][2] ELSE Null]]
        Keep(p) == /\ p.value # Null
                   /\ Geq(ParseInt(p.date), startYear)
                   /\ Leq(ParseInt(p.date), endYear)
    IN  SortByDate(SelectSeq(mapped, Keep))

\* the try block of lines 246-284 up to the response: either it throws, or
\* it has the points (possibly none) it answers with
DataMapperResult(r, outcome) ==
    LET fetched == fetchJson(outcome)
        values == OptGet(OptGet(OptGet(fetched.json, "values"), DmIndicator(r.key)),
                         DmCountry3(r.key))
    IN  IF fetched.threw THEN [threw |-> TRUE, error |-> fetched.error, data |-> << >>]
        ELSE IF ~Truthy(values) \/ values.t \notin {"obj", "arr"}
        THEN [threw |-> TRUE, error |-> << "No data in response" >>, data |-> << >>]
        ELSE [threw |-> FALSE, error |-> << >>,
              data |-> DmPoints(values, r.startPeriod, r.endPeriod)]

(***************************************************************************)
(* The World Bank path of handler (lines 292-378)                          *)
(***************************************************************************)
\* keyParts[1] is undefined for a key without a second segment, and
\* countryCode.toUpperCase() (line 314) then throws a TypeError
WbKeyHasCountry(key) == Len(Split(key, ".")) >= 2

WbCountry3(key) ==
    LET countryCode == Split(key, ".")[2]
    IN  Iso3Or(toUpperCase(countryCode), toUpperCase(countryCode))

WbIndicator(key) ==
    LET keyParts == Split(key, ".")
    IN  Join(SubSeq(keyParts, 3, Len(keyParts)), ".")

\* new Date().getFullYear().toString(): the year of the server's clock
CurrentYear == << "2", "0", "2", "5" >>

wbUrl(r) ==
    << "https:", "/", "/", "api.worldbank.org", "/", "v2", "/", "country", "/" >>
    \o WbCountry3(r.key) \o << "/", "indicator", "/" >> \o WbIndicator(r.key)
    \o << "?", "format=json", "&", "date=" >>
    \o (IF Truthy(r.startPeriod) THEN r.startPeriod.s ELSE << "1", "9", "8", "0" >>)
    \o << ":" >>
    \o (IF Truthy(r.endPeriod) THEN r.endPeriod.s ELSE CurrentYear)
    \o << "&", "per_page=500" >>

\* a mutated conversion: an item without a number is kept, with value null
WbPointsNullPreserved(dataArray) ==
    SortByDate([i \in 1..Len(dataArray) |->
                  [date |-> JsString(Get(dataArray[i], "date")),
                   value |-> IF Get(dataArray[i], "value").t = "num"
                             THEN Get(dataArray[i], "value") ELSE Null]])

\* lines 341-348
WbPoints(dataArray) ==
    LET HasValue(item) == ~IsNullish(Get(item, "value"))
        kept == SelectSeq(dataArray, HasValue)
        mapped == [i \in 1..Len(kept) |->
                     [date |-> JsString(IF Truthy(Get(kept[i], "date"))
                                        THEN Get(kept[i], "date")
                                        ELSE Get(kept[i], "year")),
                      value |-> IF Get(kept[i], "value").t = "num"
                                THEN Get(kept[i], "value")
                                ELSE ParseFloat(Get(kept[i], "value"))]]
        NotNaN(p) == p.value.t = "num"
    IN  SortByDate(SelectSeq(mapped, NotNaN))

\* the try block of lines 323-362 up to the response
WorldBankResult(outcome) ==
    LET fetched == fetchJson(outcome)
        json == fetched.json
        second == IF json.t = "arr" /\ Len(json.items) > 1 THEN json.items[2]
                  ELSE Arr(<< >>)
    IN  IF fetched.threw THEN [threw |-> TRUE, error |-> fetched.error, data |-> << >>]
        ELSE IF second.t # "arr" \/ Len(second.items) = 0
        THEN [threw |-> TRUE, error |-> << "No data in response" >>, data |-> << >>]
        ELSE IF \E i \in 1..Len(second.items) : IsNullish(second.items[i])
        THEN [threw |-> TRUE,
              error |-> << "Cannot read properties of null (reading 'value')" >>,
              data |-> << >>]
        ELSE [threw |-> FALSE, error |-> << >>, data |-> WbPoints(second.items)]

(***************************************************************************)
(* Requests and upstream answers the model draws from.                     *)
(***************************************************************************)
\* the segments request keys are built from: a frequency, a 2-letter and a
\* 3-letter area, and an indicator with a character that URLs escape
Segments == { << "A" >>, << "U", "S" >>, << "U", "S", "A" >>, << "N", "+" >> }

RequestKeys ==
    { << >> } \cup
    { Join(segs, ".") : segs \in UNION { [1..n -> Segments] : n \in 1..MaxSegs } }

Year2020 == << "2", "0", "2", "0" >>

\* the parsed query parameters of lines 199-214; a type that is neither data
\* nor availableconstraint reaches the variant loop like an SDMX data request
Requests ==
    [ type : { "data", "availableconstraint", "dataflow" },
      flowRef : { << "I", "F", "S" >>, WEO, WORLDBANK },
      key : RequestKeys,
      startPeriod : { Undefined, Str(Year2020) },
      endPeriod : { Undefined },
      updatedAfter : { Undefined },
      mode : { Undefined },
      references : { Undefined },
      providerRef : { << "a", "l", "l" >> },
      componentID : { << "R", "E", "F", "_", "A", "R", "E", "A" >> },
      freq : { Undefined },
      indicatorLabel : { Undefined },
      timeRange : { Undefined },
      clientTs : { Undefined } ]

Observation(timeField, time, valueField, value) ==
    Obj((timeField :> time) @@ (valueField :> value))

\* a CompactData body with one series of two observations, latest first
CompactBody ==
    Obj("CompactData" :> Obj("DataSet" :> Obj("Series" :> Obj("Obs" :> Arr(
        << Observation("@TIME_PERIOD", Str(<< "2", "0", "2", "1" >>),
                       "@OBS_VALUE", Str(<< "5" >>)),
           Observation("@TIME_PERIOD", Str(Year2020),
                       "@OBS_VALUE", Str(<< "7" >>)) >>)))))

\* a CompactData body whose Obs array ends with a null, latest first
BrokenCompactBody ==
    Obj("CompactData" :> Obj("DataSet" :> Obj("Series" :> Obj("Obs" :> Arr(
        << Observation("@TIME_PERIOD", Str(<< "2", "0", "2", "1" >>),
                       "@OBS_VALUE", Str(<< "5" >>)),
           Observation("@TIME_PERIOD", Str(Year2020),
                       "@OBS_VALUE", Str(<< "7" >>)),
           Null >>)))))

\* what the SDMX endpoint can answer to one call
SdmxOutcomes ==
    { HttpError("500"), HttpOkText, HttpOk(CompactBody), HttpOk(BrokenCompactBody) }

\* a DataMapper body { values: { indicator: { country3: {2018: 1, 2019: 2} } } }
DmBody(r) ==
    Obj("values" :> Obj(DmIndicator(r.key) :> Obj(DmCountry3(r.key) :>
        Obj((<< "2", "0", "1", "8" >> :> Num(1)) @@
            (<< "2", "0", "1", "9" >> :> Num(2))))))

\* what the DataMapper endpoint can answer to the call of request r
DmOutcomes(r) == { HttpError("404"), HttpOk(Obj("api" :> Str(<< "v1" >>))),
                   HttpOk(DmBody(r)) }

WbItem(date, value) == Obj(("date" :> Str(date)) @@ ("value" :> value))

\* what the World Bank endpoint can answer to one call
WbOutcomes ==
    { NetworkError, HttpError("502"), HttpOkText,
      HttpOk(Arr(<< Obj("message" :> Str(<< "invalid" >>)) >>)),
      HttpOk(Arr(<< Obj("page" :> Num(1)),
                    Arr(<< WbItem(Year2020, Null),
                           WbItem(<< "2", "0", "2", "1" >>, Num(53)) >>) >>)),
      HttpOk(Arr(<< Obj("page" :> Num(1)),
                    Arr(<< WbItem(Year2020, Null) >>) >>)),
      HttpOk(Arr(<< Obj("page" :> Num(1)), Arr(<< Null >>) >>)),
      HttpOk(Arr(<< Arr(<< WbItem(<< "2", "0", "1", "9" >>, Num(9)) >>),
                    Arr(<< WbItem(<< "2", "0", "2", "2" >>, Str(<< "n", "a" >>)),
                           Obj("date" :> Str(<< "2", "0", "2", "3" >>)),
                           WbItem(<< "2", "0", "2", "1" >>, Num(53)),
                           WbItem(Year2020, Str(<< "7" >>)) >>) >>)) }

\* what the availableconstraint endpoint can answer to one call
AcOutcomes ==
    { NetworkError, HttpError("500"), HttpOkText,
      HttpOk(Obj("data" :> Obj("contentConstraints" :> Arr(<< >>)))) }

(***************************************************************************)
(* handler and imf3Adapter as a state machine.  pc is the await the        *)
(* request is suspended at; calls is the log of the upstream calls issued, *)
(* settled what upstream did to each call that has come back, in order,    *)
(* and inflight the number of calls not yet settled.                       *)
(***************************************************************************)
NoResponse == [status |-> 0]

IsWeoData(r) == IsFlow(r, WEO) /\ r.type = "data"
IsWorldBankData(r) == IsFlow(r, WORLDBANK) /\ r.type = "data"

\* the passthrough fields as JSON.stringify keeps them: undefined ones dropped
Defined(fields) ==
    [k \in { k \in DOMAIN fields : fields[k].t # "undefined" } |-> fields[k]]

PassthroughMeta(r) ==
    Defined([indicatorLabel |-> r.indicatorLabel, timeRange |-> r.timeRange,
             clientTs |-> r.clientTs])

\* line 417
KeyVariantsOf(r) ==
    IF Len(r.key) > 0 THEN generateKeyVariants(r.key) ELSE << << "A", "L", "L" >> >>

TargetUrl(r, keyVariant) == buildDataUrl(r.flowRef, keyVariant, QueryOf(r))

SdmxCall(r, keyVariant) ==
    [adapter |-> "sdmx", key |-> keyVariant, url |-> TargetUrl(r, keyVariant)]

FailedAttempt(url, err) == [url |-> url, success |-> FALSE, error |-> err]
EmptyOrDataAttempt(url, n) == [url |-> url, success |-> TRUE, dataPoints |-> n]

\* the response of lines 451-469
SuccessResponse(r, log, data, json, url) ==
    [status |-> 200,
     body |-> [meta |-> [type |-> r.type, flowRef |-> r.flowRef,
                         key |-> MetaKeyOf(url, r.key), url |-> url,
                         variantsTried |-> Len(log)]
                        @@ Defined([freq |-> r.freq]) @@ PassthroughMeta(r),
               data |-> data, raw |-> json, attempts |-> log]]

\* a mutated exhaustion response: only the last attempt is reported
ExhaustedResponseLastAttempt(r, log) ==
    [status |-> 404,
     body |-> [error |-> << "No data available for any key variant" >>,
               message |-> << "Tried " >> \o NatToString(Len(log))
                           \o << " key variant(s) for " >> \o r.flowRef,
               meta |-> [type |-> r.type, flowRef |-> r.flowRef, requestedKey |-> r.key]
                        @@ Defined([freq |-> r.freq]) @@ PassthroughMeta(r),
               data |-> << >>, attempts |-> << log[Len(log)] >>]]

\* the response of lines 472-490
ExhaustedResponse(r, log) ==
    [status |-> 404,
     body |-> [error |-> IF "error" \in DOMAIN log[Len(log)] /\ Len(log[Len(log)].error) > 0
                         THEN log[Len(log)].error
                         ELSE << "No data available for any key variant" >>,
               message |-> << "Tried " >> \o NatToString(Len(log))
                           \o << " key variant(s) for " >> \o r.flowRef,
               meta |-> [type |-> r.type, flowRef |-> r.flowRef, requestedKey |-> r.key]
                        @@ Defined([freq |-> r.freq]) @@ PassthroughMeta(r),
               data |-> << >>, attempts |-> log]]

\* the response of lines 276-284
DataMapperResponse(r, data, json, log) ==
    [status |-> 200,
     body |-> [meta |-> [type |-> r.type, flowRef |-> WEO,
                         key |-> DmCountry3(r.key) \o << "." >> \o DmIndicator(r.key),
                         url |-> dmUrl(r.key), freq |-> Str(<< "A" >>)]
                        @@ PassthroughMeta(r),
               data |-> data, raw |-> json, attempts |-> log]]

\* the response of lines 354-362
WorldBankResponse(r, data, json, log) ==
    [status |-> 200,
     body |-> [meta |-> [type |-> r.type, flowRef |-> WORLDBANK,
                         key |-> WbCountry3(r.key) \o << "." >> \o WbIndicator(r.key),
                         url |-> wbUrl(r), freq |-> Str(<< "A" >>)]
                        @@ PassthroughMeta(r),
               data |-> data, raw |-> json, attempts |-> log]]

\* the response of lines 366-377
WorldBankFailure(r, err, log) ==
    [status |-> 404,
     body |-> [error |-> err,
               message |-> << "Failed to fetch from World Bank API" >>,
               meta |-> [type |-> r.type, flowRef |-> WORLDBANK, requestedKey |-> r.key]
                        @@ PassthroughMeta(r),
               data |-> << >>, attempts |-> log]]

\* what imf3Adapter's catch (lines 509-512) answers when line 314 throws
AdapterError ==
    [status |-> 500,
     body |-> [error |-> << "Cannot read properties of undefined (reading 'toUpperCase')" >>]]

\* no Dashboard is mounted: the request reaches handler from elsewhere
NoDashboard ==
    /\ selection = << >>
    /\ effects = << >>
    /\ chartData = << >>
    /\ loading = FALSE
    /\ error = Null
    /\ localStorage = << >>
    /\ now = 0
    /\ upstream = << >>
    /\ yielded = {}

Init ==
    /\ NoDashboard
    /\ req \in Requests
    /\ pc = "start"
    /\ keyVariants = << >>
    /\ idx = 0
    /\ attempts = << >>
    /\ calls = << >>
    /\ settled = << >>
    /\ inflight = 0
    /\ finalData = << >>
    /\ finalJson = Null
    /\ successUrl = << >>
    /\ response = NoResponse

\* lines 222-249: a WEO data request issues the DataMapper call
StartDataMapper ==
    /\ pc = "start" /\ IsWeoData(req)
    /\ calls' = Append(calls, [adapter |-> "datamapper", key |-> req.key,
                               url |-> dmUrl(req.key)])
    /\ inflight' = inflight + 1
    /\ pc' = "datamapper"
    /\ UNCHANGED << req, keyVariants, idx, attempts, settled, finalData, finalJson,
                    successUrl, response >>
    /\ UNCHANGED dashVars

\* a mutated loop entry: the calls of all variants are issued together, as
\* Promise.all over the list would
EnterVariantLoopAllAtOnce(log) ==
    /\ keyVariants' = KeyVariantsOf(req)
    /\ idx' = 1
    /\ attempts' = log
    /\ calls' = calls \o [i \in 1..Len(KeyVariantsOf(req)) |->
                             SdmxCall(req, KeyVariantsOf(req)[i])]
    /\ pc' = "sdmx"

\* a mutated loop entry: the loop starts from a fresh attempt list, so what
\* the DataMapper catch logged is lost
EnterVariantLoopFreshLog(log) ==
    /\ keyVariants' = KeyVariantsOf(req)
    /\ idx' = 1
    /\ attempts' = << >>
    /\ calls' = Append(calls, SdmxCall(req, KeyVariantsOf(req)[1]))
    /\ pc' = "sdmx"

\* lines 416-427, entered from the start or after the DataMapper catch: the
\* variant list is generated and the call for its first variant issued
EnterVariantLoop(log) ==
    /\ keyVariants' = KeyVariantsOf(req)
    /\ idx' = 1
    /\ attempts' = log
    /\ calls' = Append(calls, SdmxCall(req, KeyVariantsOf(req)[1]))
    /\ pc' = "sdmx"

\* lines 250-284: the DataMapper call answered with a values object
DataMapperAnswers ==
    /\ pc = "datamapper"
    /\ \E outcome \in DmOutcomes(req) :
         LET res == DataMapperResult(req, outcome)
             log == Append(attempts, EmptyOrDataAttempt(dmUrl(req.key), Len(res.data)))
         IN  /\ ~res.threw
             /\ settled' = Append(settled, outcome)
             /\ attempts' = log
             /\ response' = DataMapperResponse(req, res.data, outcome.json, log)
    /\ inflight' = inflight - 1
    /\ pc' = "done"
    /\ UNCHANGED << req, keyVariants, idx, calls, finalData, finalJson, successUrl >>
    /\ UNCHANGED dashVars

\* lines 285-288, then 416-427: the DataMapper call threw, the catch logs it
\* and handler falls through to the SDMX variant loop
DataMapperThrows ==
    /\ pc = "datamapper"
    /\ \E outcome \in DmOutcomes(req) :
         LET res == DataMapperResult(req, outcome)
         IN  /\ res.threw
             /\ settled' = Append(settled, outcome)
             /\ EnterVariantLoop(Append(attempts, FailedAttempt(dmUrl(req.key), res.error)))
    /\ inflight' = inflight
    /\ UNCHANGED << req, finalData, finalJson, successUrl, response >>
    /\ UNCHANGED dashVars

\* lines 416-427 for a request that is neither WEO data, World Bank data nor
\* availableconstraint
StartSdmx ==
    /\ pc = "start"
    /\ ~IsWeoData(req) /\ ~IsWorldBankData(req) /\ req.type # "availableconstraint"
    /\ EnterVariantLoop(attempts)
    /\ inflight' = inflight + 1
    /\ UNCHANGED << req, settled, finalData, finalJson, successUrl, response >>
    /\ UNCHANGED dashVars

\* a mutated iteration end: an iteration without data ends the resolution,
\* whatever variants are left
GiveUpAfterFirstMiss(log) ==
    /\ attempts' = log
    /\ idx' = idx
    /\ calls' = calls
    /\ inflight' = inflight - 1
    /\ pc' = "done"
    /\ response' = ExhaustedResponse(req, log)
    /\ UNCHANGED << req, keyVariants, finalData, finalJson, successUrl >>

\* the end of one iteration without data: the next variant's call is issued
\* (line 422), or the list is exhausted and lines 470-491 answer
NextVariantOrExhausted(log) ==
    /\ attempts' = log
    /\ IF idx < Len(keyVariants)
       THEN /\ idx' = idx + 1
            /\ calls' = Append(calls, SdmxCall(req, keyVariants[idx + 1]))
            /\ inflight' = inflight
            /\ pc' = "sdmx"
            /\ response' = response
       ELSE /\ idx' = idx
            /\ calls' = calls
            /\ inflight' = inflight - 1
            /\ pc' = "done"
            /\ response' = ExhaustedResponse(req, log)
    /\ UNCHANGED << req, keyVariants, finalData, finalJson, successUrl >>

\* lines 442-446: fetchResource threw for the variant in flight
SdmxThrows ==
    /\ pc = "sdmx"
    /\ \E outcome \in SdmxOutcomes :
         /\ fetchResource(outcome).threw
         /\ settled' = Append(settled, outcome)
         /\ NextVariantOrExhausted(
              Append(attempts, FailedAttempt(TargetUrl(req, keyVariants[idx]),
                                             fetchResource(outcome).error)))
    /\ UNCHANGED dashVars

\* lines 428-441: the call returned and normalized to no point
SdmxEmpty ==
    /\ pc = "sdmx"
    /\ \E outcome \in SdmxOutcomes :
         /\ ~fetchResource(outcome).threw
         /\ Len(normalizeData(fetchResource(outcome).json)) = 0
         /\ settled' = Append(settled, outcome)
         /\ NextVariantOrExhausted(
              Append(attempts, EmptyOrDataAttempt(TargetUrl(req, keyVariants[idx]), 0)))
    /\ UNCHANGED dashVars

\* a mutated success branch: the loop has no break, so after a variant with
\* data the remaining variants are still called, the last one with data wins
\* and the response is built only after the list is exhausted
BreakAndRespondNoBreak(log, json, normalized, targetUrl) ==
    /\ attempts' = log
    /\ finalJson' = json
    /\ finalData' = normalized
    /\ successUrl' = targetUrl
    /\ IF idx < Len(keyVariants)
       THEN /\ idx' = idx + 1
            /\ calls' = Append(calls, SdmxCall(req, keyVariants[idx + 1]))
            /\ inflight' = inflight
            /\ pc' = "sdmx"
            /\ response' = response
       ELSE /\ idx' = idx
            /\ calls' = calls
            /\ inflight' = inflight - 1
            /\ pc' = "done"
            /\ response' = SuccessResponse(req, log, normalized, json, targetUrl)
    /\ UNCHANGED << req, keyVariants >>

\* lines 432-437 and 450-469: the variant in flight had data, the loop breaks
\* and the success response is built from it
BreakAndRespond(log, json, normalized, targetUrl) ==
    /\ attempts' = log
    /\ finalJson' = json
    /\ finalData' = normalized
    /\ successUrl' = targetUrl
    /\ response' = SuccessResponse(req, log, normalized, json, targetUrl)
    /\ inflight' = inflight - 1
    /\ pc' = "done"
    /\ UNCHANGED << req, keyVariants, idx, calls >>

\* lines 428-437: the call returned and normalized to at least one point
SdmxData ==
    /\ pc = "sdmx"
    /\ \E outcome \in SdmxOutcomes :
         LET json == fetchResource(outcome).json
             normalized == normalizeData(json)
             targetUrl == TargetUrl(req, keyVariants[idx])
         IN  /\ ~fetchResource(outcome).threw
             /\ Len(normalized) > 0
             /\ settled' = Append(settled, outcome)
             /\ BreakAndRespond(
                  Append(attempts, EmptyOrDataAttempt(targetUrl, Len(normalized))),
                  json, normalized, targetUrl)
    /\ UNCHANGED dashVars

\* lines 292-325: a World Bank data request whose key has a country segment
\* issues the World Bank call
StartWorldBank ==
    /\ pc = "start" /\ IsWorldBankData(req) /\ ~IsWeoData(req)
    /\ WbKeyHasCountry(req.key)
    /\ calls' = Append(calls, [adapter |-> "worldbank", key |-> req.key, url |-> wbUrl(req)])
    /\ inflight' = inflight + 1
    /\ pc' = "worldbank"
    /\ UNCHANGED << req, keyVariants, idx, attempts, settled, finalData, finalJson,
                    successUrl, response >>
    /\ UNCHANGED dashVars

\* line 314 throws for a key without a country segment; nothing in handler
\* catches it, and imf3Adapter (lines 509-512) answers 500 with { error }
WorldBankKeyThrows ==
    /\ pc = "start" /\ IsWorldBankData(req) /\ ~IsWeoData(req)
    /\ ~WbKeyHasCountry(req.key)
    /\ response' = AdapterError
    /\ pc' = "done"
    /\ UNCHANGED << req, keyVariants, idx, attempts, calls, settled, inflight,
                    finalData, finalJson, successUrl >>
    /\ UNCHANGED dashVars

\* lines 326-362: the World Bank call answered with a non-empty data array
WorldBankAnswers ==
    /\ pc = "worldbank"
    /\ \E outcome \in WbOutcomes :
         LET res == WorldBankResult(outcome)
             log == Append(attempts, EmptyOrDataAttempt(wbUrl(req), Len(res.data)))
         IN  /\ ~res.threw
             /\ settled' = Append(settled, outcome)
             /\ attempts' = log
             /\ response' = WorldBankResponse(req, res.data, outcome.json, log)
    /\ inflight' = inflight - 1
    /\ pc' = "done"
    /\ UNCHANGED << req, keyVariants, idx, calls, finalData, finalJson, successUrl >>
    /\ UNCHANGED dashVars

\* lines 363-377: the World Bank call threw, the catch logs it and answers 404
WorldBankThrows ==
    /\ pc = "worldbank"
    /\ \E outcome \in WbOutcomes :
         LET res == WorldBankResult(outcome)
             log == Append(attempts, FailedAttempt(wbUrl(req), res.error))
         IN  /\ res.threw
             /\ settled' = Append(settled, outcome)
             /\ attempts' = log
             /\ response' = WorldBankFailure(req, res.error, log)
    /\ inflight' = inflight - 1
    /\ pc' = "done"
    /\ UNCHANGED << req, keyVariants, idx, calls, finalData, finalJson, successUrl >>
    /\ UNCHANGED dashVars

\* line 385
PathKey(r) == IF Len(r.key) > 0 THEN r.key ELSE << "A", "L", "L" >>

AcUrl(r) ==
    buildAvailableConstraintUrl(r.flowRef, PathKey(r), r.providerRef, r.componentID,
                                QueryOf(r))

\* lines 384-390: an availableconstraint request issues its one call
StartAvailableConstraint ==
    /\ pc = "start" /\ req.type = "availableconstraint"
    /\ calls' = Append(calls, [adapter |-> "availableconstraint", key |-> PathKey(req),
                               url |-> AcUrl(req)])
    /\ inflight' = inflight + 1
    /\ pc' = "availableconstraint"
    /\ UNCHANGED << req, keyVariants, idx, attempts, settled, finalData, finalJson,
                    successUrl, response >>
    /\ UNCHANGED dashVars

\* lines 391-401
AvailableConstraintAnswers ==
    /\ pc = "availableconstraint"
    /\ \E outcome \in AcOutcomes :
         LET log == Append(attempts, [url |-> AcUrl(req), success |-> TRUE])
         IN  /\ ~fetchResource(outcome).threw
             /\ settled' = Append(settled, outcome)
             /\ attempts' = log
             /\ response' =
                  [status |-> 200,
                   body |-> [meta |-> [type |-> req.type, flowRef |-> req.flowRef,
                                       key |-> PathKey(req),
                                       providerRef |-> req.providerRef,
                                       componentID |-> req.componentID,
                                       url |-> AcUrl(req)]
                                      @@ Defined([freq |-> req.freq])
                                      @@ PassthroughMeta(req),
                             data |-> << >>, raw |-> fetchResource(outcome).json,
                             attempts |-> log]]
    /\ inflight' = inflight - 1
    /\ pc' = "done"
    /\ UNCHANGED << req, keyVariants, idx, calls, finalData, finalJson, successUrl >>
    /\ UNCHANGED dashVars

\* lines 402-413
AvailableConstraintThrows ==
    /\ pc = "availableconstraint"
    /\ \E outcome \in AcOutcomes :
         LET log == Append(attempts, FailedAttempt(AcUrl(req), fetchResource(outcome).error))
         IN  /\ fetchResource(outcome).threw
             /\ settled' = Append(settled, outcome)
             /\ attempts' = log
             /\ response' =
                  [status |-> 502,
                   body |-> [error |-> fetchResource(outcome).error,
                             meta |-> [type |-> req.type, flowRef |-> req.flowRef,
                                       key |-> PathKey(req), url |-> AcUrl(req)],
                             attempts |-> log]]
    /\ inflight' = inflight - 1
    /\ pc' = "done"
    /\ UNCHANGED << req, keyVariants, idx, calls, finalData, finalJson, successUrl >>
    /\ UNCHANGED dashVars

Next ==
    \/ StartDataMapper
    \/ DataMapperAnswers
    \/ DataMapperThrows
    \/ StartWorldBank
    \/ WorldBankKeyThrows
    \/ WorldBankAnswers
    \/ WorldBankThrows
    \/ StartAvailableConstraint
    \/ AvailableConstraintAnswers
    \/ AvailableConstraintThrows
    \/ StartSdmx
    \/ SdmxThrows
    \/ SdmxEmpty
    \/ SdmxData

Spec == Init /\ [][Next]_vars

(***************************************************************************)
(* handler for the requests of a client that sends the passthrough fields  *)
(* of lines 210-214, each of them or not.                                  *)
(***************************************************************************)
ClientMetaRequests ==
    [ type : { "data", "availableconstraint" },
      flowRef : { << "I", "F", "S" >>, WEO, WORLDBANK },
      key : { << >>, << "A", ".", "U", "S", ".", "N", "+" >> },
      startPeriod : { Undefined },
      endPeriod : { Undefined },
      updatedAfter : { Undefined },
      mode : { Undefined },
      references : { Undefined },
      providerRef : { << "a", "l", "l" >> },
      componentID : { << "R", "E", "F", "_", "A", "R", "E", "A" >> },
      freq : { Undefined, Str(<< "M" >>) },
      indicatorLabel : { Undefined, Str(<< "GDP" >>) },
      timeRange : { Undefined, Str(<< "5Y" >>) },
      clientTs : { Undefined, Str(<< "2025-01-01T00:00:00.000Z" >>) } ]

InitClientMeta ==
    /\ NoDashboard
    /\ req \in ClientMetaRequests
    /\ pc = "start"
    /\ keyVariants = << >>
    /\ idx = 0
    /\ attempts = << >>
    /\ calls = << >>
    /\ settled = << >>
    /\ inflight = 0
    /\ finalData = << >>
    /\ finalJson = Null
    /\ successUrl = << >>
    /\ response = NoResponse

SpecClientMeta == InitClientMeta /\ [][Next]_vars

(***************************************************************************)
(* handler as a function: the response to a request whose type is not      *)
(* availableconstraint, given what upstream answers.  up.dm and up.wb are  *)
(* the answers of the DataMapper and World Bank endpoints, up.sdmx the     *)
(* answers of the SDMX endpoint to the calls of the variant loop, in       *)
(* order (the last one repeated for later calls).                          *)
(***************************************************************************)
SdmxAnswer(up, i) == up.sdmx[IF i <= Len(up.sdmx) THEN i ELSE Len(up.sdmx)]

RECURSIVE VariantLoopResult(_, _, _, _, _)
\* lines 416-491 from the call of variants[i] on, with log logged so far
VariantLoopResult(r, variants, i, log, up) ==
    IF i > Len(variants) THEN ExhaustedResponse(r, log)
    ELSE LET targetUrl == TargetUrl(r, variants[i])
             fetched == fetchResource(SdmxAnswer(up, i))
             normalized == normalizeData(fetched.json)
         IN  IF fetched.threw
             THEN VariantLoopResult(r, variants, i + 1,
                                    Append(log, FailedAttempt(targetUrl, fetched.error)), up)
             ELSE IF Len(normalized) > 0
             THEN SuccessResponse(r, Append(log, EmptyOrDataAttempt(targetUrl, Len(normalized))),
                                  normalized, fetched.json, targetUrl)
             ELSE VariantLoopResult(r, variants, i + 1,
                                    Append(log, EmptyOrDataAttempt(targetUrl, 0)), up)

\* lines 197-492 and imf3Adapter
handlerResult(r, up) ==
    IF IsWeoData(r)
    THEN LET res == DataMapperResult(r, up.dm)
         IN  IF res.threw
             THEN VariantLoopResult(r, KeyVariantsOf(r), 1,
                                    << FailedAttempt(dmUrl(r.key), res.error) >>, up)
             ELSE DataMapperResponse(r, res.data, up.dm.json,
                                     << EmptyOrDataAttempt(dmUrl(r.key), Len(res.data)) >>)
    ELSE IF IsWorldBankData(r)
    THEN IF ~WbKeyHasCountry(r.key) THEN AdapterError
         ELSE LET res == WorldBankResult(up.wb)
              IN  IF res.threw
                  THEN WorldBankFailure(r, res.error,
                                        << FailedAttempt(wbUrl(r), res.error) >>)
                  ELSE WorldBankResponse(r, res.data, up.wb.json,
                                         << EmptyOrDataAttempt(wbUrl(r), Len(res.data)) >>)
    ELSE VariantLoopResult(r, KeyVariantsOf(r), 1, << >>, up)

(***************************************************************************)
(* generateKeyVariants on its own, over every key of at most MaxKeyLen     *)
(* characters.                                                             *)
(***************************************************************************)
KeyChars == { "A", "S", "." }

AllKeys == UNION { [1..n -> KeyChars] : n \in 0..MaxKeyLen }

InitVariants ==
    /\ NoDashboard
    /\ req \in [ type : { "data" }, flowRef : { << "I", "F", "S" >> }, key : AllKeys,
                 startPeriod : { Undefined }, endPeriod : { Undefined },
                 updatedAfter : { Undefined }, mode : { Undefined },
                 references : { Undefined }, providerRef : { << "a", "l", "l" >> },
                 componentID : { << "R", "E", "F", "_", "A", "R", "E", "A" >> },
                 freq : { Undefined }, indicatorLabel : { Undefined },
                 timeRange : { Undefined }, clientTs : { Undefined } ]
    /\ pc = "start"
    /\ keyVariants = << >>
    /\ idx = 0
    /\ attempts = << >>
    /\ calls = << >>
    /\ settled = << >>
    /\ inflight = 0
    /\ finalData = << >>
    /\ finalJson = Null
    /\ successUrl = << >>
    /\ response = NoResponse

\* generateKeyVariants(key) is called and its result kept
Generate ==
    /\ pc = "start"
    /\ keyVariants' = generateKeyVariants(req.key)
    /\ pc' = "generated"
    /\ UNCHANGED << req, idx, attempts, calls, settled, inflight, finalData,
                    finalJson, successUrl, response >>
    /\ UNCHANGED dashVars

NextVariants == Generate

SpecVariants == InitVariants /\ [][NextVariants]_vars

(***************************************************************************)
(* The Dashboard component (unnamed/part_004): its localStorage cache and  *)
(* the effect that resolves the current selection through /api/imf3.       *)
(***************************************************************************)
\* most runs of the loadData effect that the mount and the user's selections
\* cause in one behaviour; the rerun after a frequency reset comes on top
MaxRuns == 2

\* line 100
CACHE_TTL_MS == 6 * 60 * 60 * 1000

\* lines 101-103
cacheKey(parts) ==
    << "imf", ":" >> \o parts.dataset \o << ":" >> \o parts.code \o << ":" >>
    \o parts.refArea \o << ":" >> \o parts.start \o << ":" >> \o parts.end
    \o << ":" >> \o parts.freq

\* a mutated round trip: the numbers come back as strings
StringifiedAsText(data) ==
    [i \in 1..Len(data) |->
        [f \in DOMAIN data[i] |->
            IF data[i][f].t = "num" THEN Str(NatToString(data[i][f].n)) ELSE data[i][f]]]

\* JSON.parse(JSON.stringify(data)) of a point list: a NaN value comes back
\* as null and an undefined field is dropped
Stringified(data) ==
    [i \in 1..Len(data) |->
        [f \in { f \in DOMAIN data[i] : data[i][f].t # "undefined" } |->
            IF data[i][f].t = "nan" THEN Null ELSE data[i][f]]]

\* a mutated loadCache: an entry is stale from the instant its age is the TTL
loadCacheExclusive(key) ==
    [storage |-> localStorage,
     result |-> IF key \notin DOMAIN localStorage THEN Null
                ELSE IF now - localStorage[key].t >= CACHE_TTL_MS THEN Null
                ELSE Arr(localStorage[key].d)]

\* a mutated loadCache: a stale entry is removed when it is found
loadCacheEvicting(key) ==
    IF key \notin DOMAIN localStorage
    THEN [storage |-> localStorage, result |-> Null]
    ELSE IF now - localStorage[key].t > CACHE_TTL_MS
    THEN [storage |-> [k \in DOMAIN localStorage \ { key } |-> localStorage[k]],
          result |-> Null]
    ELSE [storage |-> localStorage, result |-> Arr(localStorage[key].d)]

\* lines 104-114: what loadCache returns at the clock's present time, and
\* localStorage as it leaves it (getItem is the only call it makes).  An
\* entry is the object { t, d } saveCache wrote, d always an array.
loadCache(key) ==
    [storage |-> localStorage,
     result |-> IF key \notin DOMAIN localStorage THEN Null
                ELSE IF now - localStorage[key].t > CACHE_TTL_MS THEN Null
                ELSE Arr(localStorage[key].d)]

\* lines 115-119: localStorage after saveCache(key, data)
saveCache(key, data) ==
    [k \in DOMAIN localStorage \cup { key } |->
        IF k = key THEN [t |-> now, d |-> Stringified(data)] ELSE localStorage[k]]

\* line 122
FREQ_LETTER == [Monthly |-> << "M" >>, Quarterly |-> << "Q" >>, Yearly |-> << "A" >>]

\* lines 126-138: the table is the inverse of the server's iso2to3
ISO3_TO_ISO2 ==
    [c3 \in { iso2to3[c2] : c2 \in DOMAIN iso2to3 } |->
        CHOOSE c2 \in DOMAIN iso2to3 : iso2to3[c2] = c3]

\* lines 140-146
convertToISO2(code) ==
    LET upper == toUpperCase(code)
    IN  IF Len(upper) = 2 THEN upper
        ELSE IF upper \in DOMAIN ISO3_TO_ISO2 THEN ISO3_TO_ISO2[upper] ELSE upper

\* lines 151-185, the rows of the indicators the model selects
INDICATOR_DEFINITIONS ==
    ("GDP (Current Prices, USD)" :>
        [code |-> << "N", "G", "D", "P", "D" >>, dataset |-> WEO]) @@
    ("Stock Market Index" :>
        [code |-> << "N", "G", "D", "P", "D" >>, dataset |-> WEO]) @@
    ("Gini Index" :>
        [code |-> << "S", "I", ".", "P", "O", "V", ".", "G", "I", "N", "I" >>,
         dataset |-> WORLDBANK])

\* line 282: new Date().getFullYear()
nowYear == 2025

\* lines 284-292
startP(timeRange) ==
    CASE timeRange = "1Y" -> NatToString(nowYear - 1)
      [] timeRange = "3Y" -> NatToString(nowYear - 3)
      [] timeRange = "5Y" -> NatToString(nowYear - 5)
      [] timeRange = "10Y" -> NatToString(nowYear - 10)
      [] OTHER -> << "1", "9", "8", "0" >>

\* line 283
endP == NatToString(nowYear)

\* lines 247-254 with the route's country code: the selection at mount
DefaultSelection ==
    [countryCode |-> << "U", "S", "A" >>,
     selectedIndicator |-> "GDP (Current Prices, USD)",
     timeRange |-> "5Y", frequency |-> "Yearly"]

\* the selections the user can make: another indicator with the same
\* code, another country, dataset and time range, and another frequency
Selections ==
    { DefaultSelection,
      [DefaultSelection EXCEPT !.selectedIndicator = "Stock Market Index"],
      [countryCode |-> << "i", "n", "d" >>, selectedIndicator |-> "Gini Index",
       timeRange |-> "Max", frequency |-> "Yearly"],
      [DefaultSelection EXCEPT !.frequency = "Monthly"] }

\* lines 268-270 and 298: what the render derives from the selection
refArea(sel) == convertToISO2(sel.countryCode)
indicatorCode(sel) == INDICATOR_DEFINITIONS[sel.selectedIndicator].code
dataset(sel) == INDICATOR_DEFINITIONS[sel.selectedIndicator].dataset
freqLetter(sel) == FREQ_LETTER[sel.frequency]

\* line 318: the argument of cacheKey
RequestParts(sel) ==
    [dataset |-> dataset(sel), code |-> indicatorCode(sel), refArea |-> refArea(sel),
     start |-> startP(sel.timeRange), end |-> endP, freq |-> freqLetter(sel)]

\* line 301
key3(sel) ==
    freqLetter(sel) \o << "." >> \o refArea(sel) \o << "." >> \o indicatorCode(sel)

\* lines 303-316, as handler reads the query back (imf3.ts lines 198-214);
\* clientTs is the time the effect ran
HandlerRequest(sel, ts) ==
    [type |-> "data", flowRef |-> dataset(sel), key |-> key3(sel),
     startPeriod |-> Str(startP(sel.timeRange)), endPeriod |-> Str(endP),
     updatedAfter |-> Undefined, mode |-> Undefined, references |-> Undefined,
     providerRef |-> << "a", "l", "l" >>,
     componentID |-> << "R", "E", "F", "_", "A", "R", "E", "A" >>,
     freq |-> Str(freqLetter(sel)),
     indicatorLabel |-> Str(<< sel.selectedIndicator >>),
     timeRange |-> Str(<< sel.timeRange >>),
     clientTs |-> Str(NatToString(ts))]

\* a DataMapper body for NGDPD of USA with years inside the 5Y window
RecentDmBody ==
    Obj("values" :> Obj(<< "N", "G", "D", "P", "D" >> :> Obj(<< "U", "S", "A" >> :>
        Obj((<< "2", "0", "1", "9" >> :> Num(1)) @@
            (<< "2", "0", "2", "1" >> :> Num(2)) @@
            (<< "2", "0", "2", "4" >> :> Num(3))))))

\* the upstream worlds a behaviour runs against, each fixed for the
\* behaviour's duration.  served: DataMapper has the series and World Bank is
\* down.  fallback: DataMapper has no values, so a WEO request falls back to
\* the SDMX loop, whose second variant has data, and World Bank has null
\* values only.
Worlds ==
    [served |->
        [dm |-> HttpOk(RecentDmBody), wb |-> HttpError("502"),
         sdmx |-> << HttpError("500") >>],
     fallback |->
        [dm |-> HttpOk(Obj("api" :> Str(<< "v1" >>))),
         wb |-> HttpOk(Arr(<< Obj("page" :> Num(1)),
                              Arr(<< WbItem(Year2020, Null) >>) >>)),
         sdmx |-> << HttpOkText, HttpOk(CompactBody) >>]]

\* the component after its first render, before any effect has run
InitDashboard ==
    /\ selection = DefaultSelection
    /\ effects = << >>
    /\ chartData = << >>
    /\ loading = FALSE
    /\ error = Null
    /\ localStorage = << >>
    /\ now = 0
    /\ upstream \in DOMAIN Worlds
    /\ yielded = {}
    /\ req = HandlerRequest(DefaultSelection, 0)
    /\ pc = "idle"
    /\ keyVariants = << >>
    /\ idx = 0
    /\ attempts = << >>
    /\ calls = << >>
    /\ settled = << >>
    /\ inflight = 0
    /\ finalData = << >>
    /\ finalJson = Null
    /\ successUrl = << >>
    /\ response = NoResponse

\* lines 272-277: the effect that puts frequency back to Yearly for the
\* annual datasets; its setFrequency shows in the next render
AutoReset(sel) ==
    IF dataset(sel) \in { WEO, WORLDBANK } /\ sel.frequency # "Yearly"
    THEN [sel EXCEPT !.frequency = "Yearly"] ELSE sel

\* the cleanup of line 369 for the effect that ran last
Cleanup ==
    [i \in DOMAIN effects |->
        IF i = Len(effects) THEN [effects[i] EXCEPT !.abort = TRUE] ELSE effects[i]]

\* a run of the effect is [sel, abort, pc, started, cached]: the selection
\* its closure holds, its abort flag, where loadData is, and for the
\* properties the time it ran and whether the cache served it
\*
\* the effects of one commit (mount, or the render after a change of the
\* dependencies of line 371): the last run's cleanup sets its abort, then
\* loadData runs up to its first await (lines 294-324); a cache hit is served
\* at once, otherwise the fetch of /api/imf3 is issued
RunEffect ==
    /\ IF Len(effects) = 0 THEN TRUE
       ELSE /\ effects[Len(effects)].sel # selection
            /\ IF selection = AutoReset(effects[Len(effects)].sel) THEN TRUE
               ELSE Len(effects) < MaxRuns
    /\ LET key == cacheKey(RequestParts(selection))
           cached == loadCache(key)
           run == [sel |-> selection, abort |-> FALSE, started |-> now]
       IN  /\ error' = Null
           /\ localStorage' = cached.storage
           /\ IF Truthy(cached.result)
              THEN /\ chartData' = cached.result.items
                   /\ loading' = FALSE
                   /\ effects' = Append(Cleanup, run @@ [pc |-> "done", cached |-> TRUE])
                   /\ yielded' = yielded \cup { [request |-> RequestParts(selection),
                                                 data |-> cached.result.items] }
              ELSE /\ chartData' = chartData
                   /\ loading' = TRUE
                   /\ effects' = Append(Cleanup, run @@ [pc |-> "fetch", cached |-> FALSE])
                   /\ yielded' = yielded
    /\ selection' = AutoReset(selection)
    /\ UNCHANGED << now, upstream >>
    /\ UNCHANGED handlerVars

\* the user picks another indicator, time range or frequency, or navigates
\* to another country (lines 247-254); the render that follows has not yet
\* run its effects
Select ==
    /\ Len(effects) > 0 /\ effects[Len(effects)].sel = selection
    /\ Len(effects) < MaxRuns
    /\ \E sel \in Selections \ { selection } : selection' = sel
    /\ UNCHANGED << effects, chartData, loading, error, localStorage, now, upstream,
                    yielded >>
    /\ UNCHANGED handlerVars

\* the instants at which the clock is looked at: the mount, one
\* millisecond later, and one millisecond before, at and after the TTL
ClockValues == { 0, 1, CACHE_TTL_MS - 1, CACHE_TTL_MS, CACHE_TTL_MS + 1 }

\* what /api/imf3 answers to the request of a selection made at time ts,
\* in each world
Replies ==
    [world \in DOMAIN Worlds |->
        [sel \in Selections |->
            [ts \in ClockValues |->
                handlerResult(HandlerRequest(sel, ts), Worlds[world])]]]

\* time passes
Tick ==
    /\ \E t \in ClockValues :
         /\ t > now
         /\ now' = t
    /\ UNCHANGED << selection, effects, chartData, loading, error, localStorage,
                    upstream, yielded >>
    /\ UNCHANGED handlerVars

\* pc of a run that has come to its end: abandoned when it found abort set
Ended(i) == IF effects[i].abort THEN "abandoned" ELSE "done"

\* a mutated catch: the error is shown and loading is left as it was
FailNoFinally(i, message) ==
    /\ effects' = [effects EXCEPT ![i].pc = Ended(i)]
    /\ IF effects[i].abort
       THEN UNCHANGED error
       ELSE error' = Str(message)
    /\ UNCHANGED << loading, chartData, localStorage, yielded >>

\* lines 355-366: the catch and the finally of a run that threw
Fail(i, message) ==
    /\ effects' = [effects EXCEPT ![i].pc = Ended(i)]
    /\ IF effects[i].abort
       THEN UNCHANGED << error, loading >>
       ELSE /\ error' = Str(message)
            /\ loading' = FALSE
    /\ UNCHANGED << chartData, localStorage, yielded >>

\* a mutated test: every point list is cached
ShouldCacheAlways(points) == TRUE

\* line 344
ShouldCache(points) == Len(points) > 0

\* line 346
attemptInfo(body) ==
    IF "attempts" \in DOMAIN body /\ Len(body.attempts) > 0
    THEN << " Tried ", NatToString(Len(body.attempts)), " variant(s)." >>
    ELSE << >>

NoDataError(body) ==
    Str(<< "No data available for the selected indicator." >> \o attemptInfo(body))

\* a mutated completion: the points are applied whether or not the run was
\* aborted
ApplyDataUnguarded(i, points, body) ==
    /\ effects' = [effects EXCEPT ![i].pc = Ended(i)]
    /\ yielded' = yielded \cup { [request |-> RequestParts(effects[i].sel),
                                  data |-> points] }
    /\ chartData' = points
    /\ localStorage' = IF ShouldCache(points)
                       THEN saveCache(cacheKey(RequestParts(effects[i].sel)), points)
                       ELSE localStorage
    /\ error' = IF Len(points) = 0 THEN NoDataError(body) ELSE error
    /\ loading' = FALSE

\* lines 340-354 and the finally of lines 364-366
ApplyData(i, points, body) ==
    /\ effects' = [effects EXCEPT ![i].pc = Ended(i)]
    /\ yielded' = yielded \cup { [request |-> RequestParts(effects[i].sel),
                                  data |-> points] }
    /\ IF effects[i].abort
       THEN UNCHANGED << chartData, localStorage, error, loading >>
       ELSE /\ chartData' = points
            /\ localStorage' = IF ShouldCache(points)
                               THEN saveCache(cacheKey(RequestParts(effects[i].sel)), points)
                               ELSE localStorage
            /\ error' = IF Len(points) = 0 THEN NoDataError(body) ELSE error
            /\ loading' = FALSE

\* line 326: the fetch of a run rejects (the network, or the server, is down)
FetchRejects ==
    /\ \E i \in DOMAIN effects :
         /\ effects[i].pc = "fetch"
         /\ Fail(i, << "Failed to fetch" >>)
    /\ UNCHANGED << selection, now, upstream >>
    /\ UNCHANGED handlerVars

\* line 340
PointsOf(body) ==
    IF "data" \in DOMAIN body
    THEN [k \in 1..Len(body.data) |->
            [year |-> Str(body.data[k].date), value |-> body.data[k].value]]
    ELSE << >>

\* lines 326-354: the fetch of a run is answered with what handler responds
\* in this world; both awaits (fetch, then res.json() or res.text()) have
\* settled, nothing being read or written between the two
FetchAnswers ==
    /\ \E i \in DOMAIN effects :
         \E reply \in { Replies[upstream][effects[i].sel][effects[i].started] } :
             /\ effects[i].pc = "fetch"
             /\ IF reply.status < 200 \/ reply.status > 299
                THEN Fail(i, << "Failed to fetch IMF data: ", NatToString(reply.status) >>)
                ELSE IF "error" \in DOMAIN reply.body /\ Len(reply.body.error) > 0
                THEN Fail(i, reply.body.error)
                ELSE ApplyData(i, PointsOf(reply.body), reply.body)
    /\ UNCHANGED << selection, now, upstream >>
    /\ UNCHANGED handlerVars

NextDashboard ==
    \/ RunEffect
    \/ Select
    \/ Tick
    \/ FetchRejects
    \/ FetchAnswers

SpecDashboard == InitDashboard /\ [][NextDashboard]_vars

(***************************************************************************)
(* Properties.                                                             *)
(***************************************************************************)
Done == pc = "done"

\* handler returned a Response (it did not throw into imf3Adapter's catch)
HandlerReturned == Done /\ response.status # 500

HasData(a) == a.success /\ "dataPoints" \in DOMAIN a /\ a.dataPoints > 0

IsSdmxCall(c) == c.adapter = "sdmx"

\* the calls of the variant loop, and how many calls came before the loop
LoopCalls == SelectSeq(calls, IsSdmxCall)
LoopOffset == Len(calls) - Len(LoopCalls)

\* the attempts the loop logged and the upstream answers it got
LoopAttempts ==
    IF Len(attempts) > LoopOffset
    THEN SubSeq(attempts, LoopOffset + 1, Len(attempts)) ELSE << >>
LoopSettled ==
    IF Len(settled) > LoopOffset
    THEN SubSeq(settled, LoopOffset + 1, Len(settled)) ELSE << >>

\* the normalized series of one SDMX answer, none when the call threw
SeriesOf(outcome) ==
    IF fetchResource(outcome).threw THEN << >>
    ELSE normalizeData(fetchResource(outcome).json)

SdmxThrew(outcome) == fetchResource(outcome).threw

IsSdmxDataRequest(r) ==
    r.type = "data" /\ ~IsWeoData(r) /\ ~IsWorldBankData(r)

\* C1: if the Nth call of the variant loop is the first whose normalized
\* series is non-empty, the loop has logged exactly N attempts and made
\* exactly N calls, the request is answered, and the answer is a success that
\* carries the series of that Nth call.
FirstNonEmptyWins ==
    \A n \in 1..Len(LoopSettled) :
        ( /\ Len(SeriesOf(LoopSettled[n])) > 0
          /\ \A m \in 1..(n - 1) : Len(SeriesOf(LoopSettled[m])) = 0 )
        => /\ Len(LoopAttempts) = n
           /\ Len(LoopCalls) = n
           /\ Done
           /\ response.status = 200
           /\ response.body.data = SeriesOf(LoopSettled[n])
           /\ response.body.meta.url = LoopCalls[n].url

\* a success at the third call of a loop that had a fourth variant left
FirstNonEmptyWinsWitness ==
    /\ Done /\ response.status = 200
    /\ Len(LoopSettled) = 3 /\ Len(keyVariants) > 3
    /\ Len(SeriesOf(LoopSettled[3])) > 0

\* C2: a loop call that throws is logged as one failed attempt with an error
\* message, under the URL that was called; if a variant is left, its call is
\* issued next; and the loop answers 404 only after it has called every
\* generated variant, in order.
ThrowLogsAndContinues ==
    /\ Len(LoopAttempts) = Len(LoopSettled)
    /\ \A i \in 1..Len(LoopSettled) :
         SdmxThrew(LoopSettled[i]) =>
            /\ LoopAttempts[i].success = FALSE
            /\ "error" \in DOMAIN LoopAttempts[i]
            /\ Len(LoopAttempts[i].error) > 0
            /\ LoopAttempts[i].url = LoopCalls[i].url
            /\ i < Len(keyVariants) =>
                 /\ Len(LoopCalls) > i
                 /\ LoopCalls[i + 1].key = keyVariants[i + 1]
    /\ (Done /\ Len(LoopCalls) > 0 /\ response.status = 404) =>
         /\ Len(LoopAttempts) = Len(keyVariants)
         /\ \A i \in 1..Len(keyVariants) : LoopCalls[i].key = keyVariants[i]

\* a success reached after an earlier variant's call threw
ThrowLogsAndContinuesWitness ==
    /\ Done /\ response.status = 200
    /\ Len(LoopSettled) >= 2
    /\ SdmxThrew(LoopSettled[1])
    /\ Len(SeriesOf(LoopSettled[Len(LoopSettled)])) > 0

\* C3: when handler answers a data request for which no attempt produced
\* data, the response has data = [] and a non-empty attempts array with one
\* entry per upstream call issued during the request.
ExhaustedEnvelope ==
    ( /\ HandlerReturned
      /\ req.type = "data"
      /\ \A i \in 1..Len(attempts) : ~HasData(attempts[i]) )
    => /\ response.body.data = << >>
       /\ Len(response.body.attempts) > 0
       /\ Len(response.body.attempts) = Len(calls)

\* an exhaustion after a failed DataMapper call and at least three variants
ExhaustedEnvelopeWitness ==
    /\ HandlerReturned /\ response.status = 404
    /\ IsWeoData(req)
    /\ Len(calls) >= 4
    /\ \A i \in 1..Len(attempts) : ~HasData(attempts[i])

\* C4: for a data request handler answers, status 200 goes with non-empty
\* data only, and an answer without data points has status 404.
StatusReflectsOutcome ==
    (HandlerReturned /\ req.type = "data") =>
        /\ response.status = 200 => Len(response.body.data) > 0
        /\ Len(response.body.data) = 0 => response.status = 404

\* the DataMapper call of a WEO data request yielded no data point
DataMapperYieldedNothing ==
    /\ IsWeoData(req)
    /\ Len(settled) >= 1
    /\ \/ DataMapperResult(req, settled[1]).threw
       \/ Len(DataMapperResult(req, settled[1]).data) = 0

\* C5: a WEO data request whose DataMapper call yielded no data point is
\* answered only after at least one SDMX key-variant call.
WeoFallsBackToSdmx ==
    (Done /\ DataMapperYieldedNothing) => Len(LoopCalls) >= 1

\* C6: every response has the four fields meta, data, raw and attempts.
EnvelopeHasFourFields ==
    Done => { "meta", "data", "raw", "attempts" } \subseteq DOMAIN response.body

\* one entry per settled call, under the URL of that call, and the whole
\* list in the response handler returns
AttemptsComplete ==
    /\ Len(attempts) = Len(settled)
    /\ Len(calls) = Len(settled) + inflight
    /\ \A i \in 1..Len(attempts) : attempts[i].url = calls[i].url
    /\ HandlerReturned =>
         /\ response.body.attempts = attempts
         /\ Len(attempts) = Len(calls)

\* a step leaves the list alone, or a call settles and one entry is appended
AttemptsGrowByOne ==
    \/ attempts' = attempts /\ settled' = settled
    \/ /\ Len(attempts') = Len(attempts) + 1
       /\ SubSeq(attempts', 1, Len(attempts)) = attempts
       /\ Len(settled') = Len(settled) + 1

\* C7: the attempts list is append-only and complete: every upstream call
\* that settles appends exactly one entry, in call order, no entry is changed
\* or removed afterwards, and the response handler returns carries the list.
AttemptsAppendOnly == []AttemptsComplete /\ [][AttemptsGrowByOne]_vars

\* an answer after a failed DataMapper call and two variant calls
AttemptsAppendOnlyWitness ==
    /\ HandlerReturned /\ IsWeoData(req)
    /\ Len(attempts) >= 3
    /\ attempts[1].success = FALSE

KeyParts == Split(req.key, ".")

\* C8: generateKeyVariants(k) is never empty, starts with k and has no
\* duplicate.
VariantsStartWithKeyNoDuplicates ==
    pc = "generated" =>
        /\ Len(keyVariants) >= 1
        /\ keyVariants[1] = req.key
        /\ \A i, j \in 1..Len(keyVariants) : i # j => keyVariants[i] # keyVariants[j]

\* a 3-segment key for which two of the pushed variants coincide
VariantsStartWithKeyNoDuplicatesWitness ==
    /\ pc = "generated"
    /\ Len(KeyParts) = 3
    /\ Len(keyVariants) < 4

\* f.<first two characters of area>.indicator for a 3-segment key
ShortenedKey(key) ==
    LET parts == Split(key, ".")
    IN  parts[1] \o << "." >> \o SubSeq(parts[2], 1, 2) \o << "." >> \o parts[3]

\* C9: for a 3-segment key whose second segment has 3 characters, the list
\* contains the key with that segment cut to its first two characters.
ThreeLetterAreaShortened ==
    (pc = "generated" /\ Len(KeyParts) = 3 /\ Len(KeyParts[2]) = 3) =>
        \E i \in 1..Len(keyVariants) : keyVariants[i] = ShortenedKey(req.key)

\* a 3-segment key with a 3-letter area whose letters differ
ThreeLetterAreaShortenedWitness ==
    /\ pc = "generated"
    /\ Len(KeyParts) = 3 /\ Len(KeyParts[2]) = 3
    /\ KeyParts[2][1] # KeyParts[2][3]
    /\ Len(KeyParts[1]) > 0 /\ Len(KeyParts[3]) > 0

\* upstream returned data for the call of the 2-letter-area variant and for
\* no other call
OnlyShortenedHasData ==
    \A i \in 1..Len(settled) :
        Len(SeriesOf(settled[i])) > 0 <=> calls[i].key = ShortenedKey(req.key)

\* C10: an SDMX data request with a 3-segment key and a 3-letter area, for
\* which only the 2-letter-area variant has data upstream, is answered with a
\* success after exactly 2 attempts, the first without data and the second
\* with data, and meta.key is the shortened key.
ScenarioA ==
    ( /\ Done /\ IsSdmxDataRequest(req)
      /\ Len(KeyParts) = 3 /\ Len(KeyParts[2]) = 3
      /\ OnlyShortenedHasData )
    => /\ response.status = 200
       /\ Len(response.body.attempts) = 2
       /\ ~HasData(response.body.attempts[1])
       /\ HasData(response.body.attempts[2])
       /\ response.body.meta.key = ShortenedKey(req.key)

\* the loop answered with a success: lines 450-469
LoopSucceeded == Done /\ response.status = 200 /\ Len(LoopCalls) > 0

\* C11: on every success response of the variant loop, meta.url is the url of
\* the last attempt, that attempt is a success whose dataPoints is the length
\* of data and positive, every earlier attempt is a failure or has 0 points,
\* and meta.key is the key variant the URL was built from.
MetaIdentifiesWinner ==
    LoopSucceeded =>
        LET log == response.body.attempts
            n == Len(log)
        IN  /\ n > 0
            /\ response.body.meta.url = log[n].url
            /\ log[n].success
            /\ log[n].dataPoints = Len(response.body.data)
            /\ log[n].dataPoints > 0
            /\ \A i \in 1..(n - 1) : ~HasData(log[i])
            /\ log[n].url = LoopCalls[Len(LoopCalls)].url
            /\ response.body.meta.key = LoopCalls[Len(LoopCalls)].key

\* C12: on every exhaustion response, meta has the requested key and a count
\* of the variants tried equal to the number of attempts, and data is [].
ExhaustedMetaHasKeyAndCount ==
    (HandlerReturned /\ response.status = 404) =>
        /\ "requestedKey" \in DOMAIN response.body.meta
        /\ response.body.meta.requestedKey = req.key
        /\ "variantsTried" \in DOMAIN response.body.meta
        /\ response.body.meta.variantsTried = Len(response.body.attempts)
        /\ response.body.data = << >>

\* upstream answered the ith call with an OK status
HttpSucceeded(i) == settled[i].kind = "http" /\ settled[i].ok

\* the points the adapter of the ith call gets out of upstream's answer
UsablePoints(i) ==
    CASE calls[i].adapter = "sdmx" -> SeriesOf(settled[i])
      [] calls[i].adapter = "datamapper" -> DataMapperResult(req, settled[i]).data
      [] calls[i].adapter = "worldbank" -> WorldBankResult(settled[i]).data
      [] OTHER -> << >>

\* C13: for the SDMX, DataMapper and World Bank adapters, a call that upstream
\* answers with an OK status and no usable observation is logged as a
\* successful attempt with dataPoints 0, never as a failed attempt.
NoDataIsNotAFailure ==
    \A i \in 1..Len(attempts) :
        ( /\ calls[i].adapter \in { "sdmx", "datamapper", "worldbank" }
          /\ HttpSucceeded(i)
          /\ Len(UsablePoints(i)) = 0 )
        => /\ attempts[i].success
           /\ "error" \notin DOMAIN attempts[i]
           /\ attempts[i].dataPoints = 0

\* C14: the upstream calls of one resolution are sequential: at most one call
\* is outstanding, and a call is issued only when every earlier call has
\* settled and has its entry in attempts.
SequentialCalls ==
    /\ Len(calls) - Len(settled) <= 1
    /\ inflight = Len(calls) - Len(settled)
    /\ Len(calls) - Len(attempts) <= 1
    /\ \A i \in 1..Len(attempts) : attempts[i].url = calls[i].url

\* the third call is outstanding and the first two are logged
SequentialCallsWitness ==
    /\ Len(calls) = 3 /\ Len(settled) = 2 /\ Len(attempts) = 2
    /\ inflight = 1

\* the dates of a point list ascend
SortedByDate(data) ==
    \A i \in 1..(Len(data) - 1) : LocaleCompare(data[i].date, data[i + 1].date) <= 0

\* C20: in every response with a data list, on the SDMX, DataMapper and World
\* Bank paths and for every upstream body, data is sorted ascending by date.
DataSortedByDate ==
    (HandlerReturned /\ "data" \in DOMAIN response.body) =>
        SortedByDate(response.body.data)

(***************************************************************************)
(* Properties of the Dashboard.                                            *)
(***************************************************************************)
KeyOfRun(i) == cacheKey(RequestParts(effects[i].sel))

\* the entry under the key of run i was there, unchanged, when the run read
\* the cache
EntryReadBy(i) ==
    /\ KeyOfRun(i) \in DOMAIN localStorage
    /\ localStorage[KeyOfRun(i)].t < effects[i].started

AgeReadBy(i) == effects[i].started - localStorage[KeyOfRun(i)].t

\* C15: an entry saveCache wrote at time T is returned by loadCache, with the
\* points stored, at every time t with t - T <= 6 hours, and is a miss (null)
\* at every t with t - T > 6 hours; the runs of the effect were served
\* accordingly.
CacheTtlBoundary ==
    /\ CACHE_TTL_MS = 21600000
    /\ \A k \in DOMAIN localStorage :
         IF now - localStorage[k].t <= CACHE_TTL_MS
         THEN loadCache(k).result = Arr(localStorage[k].d)
         ELSE loadCache(k).result = Null
    /\ \A i \in DOMAIN effects :
         EntryReadBy(i) => (effects[i].cached <=> AgeReadBy(i) <= CACHE_TTL_MS)

\* a run served from an entry whose age was exactly the TTL
CacheTtlBoundaryWitness ==
    \E i \in DOMAIN effects :
        EntryReadBy(i) /\ effects[i].cached /\ AgeReadBy(i) = CACHE_TTL_MS

\* C16: every entry of the cache has a non-empty point list.
CacheNeverEmpty ==
    \A k \in DOMAIN localStorage : Len(localStorage[k].d) > 0

\* the run for the current selection got no point and left no entry, while
\* an earlier run's points are cached
CacheNeverEmptyWitness ==
    /\ Len(effects) > 1
    /\ effects[Len(effects)].pc = "done" /\ ~effects[Len(effects)].cached
    /\ chartData = << >>
    /\ error # Null /\ error.s[1] = "No data available for the selected indicator."
    /\ KeyOfRun(Len(effects)) \notin DOMAIN localStorage
    /\ DOMAIN localStorage # {}

\* a step in which an effect runs, so loadCache is called: storage is left as
\* it was, and a stale entry under the run's key makes the run fetch
LoadLeavesStorage ==
    Len(effects') > Len(effects) =>
        /\ localStorage' = localStorage
        /\ LET key == cacheKey(RequestParts(selection))
           IN  (key \in DOMAIN localStorage /\ now - localStorage[key].t > CACHE_TTL_MS)
               => /\ ~effects'[Len(effects')].cached
                  /\ effects'[Len(effects')].pc = "fetch"

\* no entry is removed, and an entry changes only when a run for its key
\* completes and saves
OnlySaveReplaces ==
    \A k \in DOMAIN localStorage :
        /\ k \in DOMAIN localStorage'
        /\ localStorage'[k] # localStorage[k] =>
             /\ localStorage'[k].t = now
             /\ \E i \in DOMAIN effects :
                  /\ effects[i].pc = "fetch" /\ effects'[i].pc = "done"
                  /\ KeyOfRun(i) = k

\* C17: loadCache never deletes or changes an entry: a stale entry stays in
\* storage, is reported as a miss, and is replaced only by a later saveCache
\* for the same key.
LoadCacheReadOnly == [][LoadLeavesStorage /\ OnlySaveReplaces]_vars

\* a run read a stale entry, is fetching, and the entry is still stored
LoadCacheReadOnlyWitness ==
    \E i \in DOMAIN effects :
        /\ EntryReadBy(i) /\ AgeReadBy(i) > CACHE_TTL_MS
        /\ effects[i].pc = "fetch"

\* C18: a step of a run whose abort flag is set changes neither chartData,
\* error, loading nor the cache.
StaleResolutionDiscarded ==
    [][\A i \in DOMAIN effects :
          (effects[i].abort /\ effects'[i] # effects[i]) =>
              UNCHANGED << chartData, error, loading, localStorage >>]_vars

\* an aborted run came back with points that were dropped, while the run of
\* the current selection is still loading
StaleResolutionDiscardedWitness ==
    \E i \in DOMAIN effects :
        /\ effects[i].pc = "abandoned"
        /\ \E y \in yielded :
             /\ y.request = RequestParts(effects[i].sel)
             /\ Len(y.data) > 0 /\ chartData # y.data
        /\ KeyOfRun(i) \notin DOMAIN localStorage
        /\ effects[Len(effects)].pc = "fetch" /\ loading

AreaWithoutEntry(r) == toUpperCase(DmCountryCode(r.key)) \notin DOMAIN iso2to3

\* the DataMapper URL with the area code as the client wrote it
PassThroughUrl(r) ==
    DATAMAPPER_BASE \o << "/" >> \o DmIndicator(r.key) \o << "/" >> \o DmCountryCode(r.key)

DataMapperCalls == { i \in 1..Len(calls) : calls[i].adapter = "datamapper" }

\* C21: for a WEO data request whose area code has no entry in iso2to3, the
\* first and only DataMapper call goes to the URL with the code unchanged, it
\* is logged as exactly one attempt, and handler returns a Response.
UnknownAreaPassedThrough ==
    (IsWeoData(req) /\ AreaWithoutEntry(req) /\ pc # "start") =>
        /\ DataMapperCalls = { 1 }
        /\ calls[1].url = PassThroughUrl(req)
        /\ Len(settled) >= 1 =>
             /\ attempts[1].url = PassThroughUrl(req)
             /\ \A i \in 2..Len(attempts) : attempts[i].url # PassThroughUrl(req)
        /\ Done => HandlerReturned

\* a 3-letter area that is not in the table, answered by DataMapper with data
UnknownAreaPassedThroughWitness ==
    /\ Done /\ IsWeoData(req) /\ AreaWithoutEntry(req)
    /\ Len(KeyParts) = 3 /\ Len(KeyParts[2]) = 3
    /\ response.status = 200 /\ Len(response.body.data) > 0
    /\ Len(calls) = 1 /\ Len(attempts) = 1

\* a value World Bank sent is a number, or a string that starts with one
NumericValue(v) == v.t = "num" \/ (v.t = "str" /\ LeadingDigits(v.s, 1) > 0)

NumberOf(v) == IF v.t = "num" THEN v ELSE Num(DigitsValue(v.s, LeadingDigits(v.s, 1)))

\* the World Bank call was answered and handler built a response from it
WorldBankSucceeded ==
    Done /\ IsWorldBankData(req) /\ response.status = 200 /\ Len(settled) = 1

PassthroughFields == { "freq", "indicatorLabel", "timeRange", "clientTs" }

\* C23: in every response handler returns, each passthrough field the client
\* sent (freq, indicatorLabel, timeRange, clientTs) is in meta with the value
\* the client sent.
ClientMetaEchoed ==
    HandlerReturned =>
        /\ "meta" \in DOMAIN response.body
        /\ \A f \in PassthroughFields :
             req[f] # Undefined =>
                 /\ f \in DOMAIN response.body.meta
                 /\ response.body.meta[f] = req[f]

\* json has none of the shapes normalizeData knows: no CompactData with a
\* DataSet, no observations array, no data array
UnknownShape(json) ==
    /\ ~(Truthy(Get(json, "CompactData")) /\ Truthy(Get(Get(json, "CompactData"), "DataSet")))
    /\ Get(json, "observations").t # "arr"
    /\ Get(json, "data").t # "arr"

\* bodies of unknown shape, the wrapper of a non-JSON body among them
UnknownBodies ==
    { Obj("raw" :> Str(<< "<xml/>" >>)),
      Obj("foo" :> Num(1)),
      Obj("CompactData" :> Obj("Header" :> Null)),
      Obj("data" :> Obj("rows" :> Arr(<< Num(1) >>))),
      Obj("observations" :> Str(<< "none" >>)),
      Arr(<< Num(1) >>), Num(5), Str(<< "ok" >>), Null }

\* upstream answered OK with a body of unknown shape
UnknownOutcome(outcome) ==
    /\ outcome.kind = "http" /\ outcome.ok
    /\ ~outcome.parses \/ UnknownShape(outcome.json)

\* C24: a body of unknown shape normalizes to the empty list; the call that
\* got it is logged as a successful attempt with 0 points, and the loop then
\* calls the next variant, or answers 404 when none is left.
UnknownShapeIsEmpty ==
    /\ \A json \in UnknownBodies : UnknownShape(json) /\ normalizeData(json) = << >>
    /\ \A i \in 1..Len(LoopSettled) :
         UnknownOutcome(LoopSettled[i]) =>
            /\ LoopAttempts[i].success
            /\ "error" \notin DOMAIN LoopAttempts[i]
            /\ LoopAttempts[i].dataPoints = 0
            /\ IF i < Len(keyVariants)
               THEN Len(LoopCalls) > i /\ LoopCalls[i + 1].key = keyVariants[i + 1]
               ELSE Done /\ response.status = 404

\* a success at the second variant after a non-JSON body for the first
UnknownShapeIsEmptyWitness ==
    /\ Done /\ response.status = 200
    /\ Len(LoopSettled) = 2
    /\ UnknownOutcome(LoopSettled[1])
    /\ LoopAttempts[1].success /\ LoopAttempts[1].dataPoints = 0
    /\ HasData(LoopAttempts[2])

\* the calls of a resolution so far: at most one per generated variant, none
\* for a variant or a URL already called, and at most one call outside the
\* variant loop
BoundedCalls ==
    /\ Len(keyVariants) <= 6
    /\ Len(LoopCalls) <= Len(keyVariants)
    /\ \A i \in 1..Len(LoopCalls) : LoopCalls[i].key = keyVariants[i]
    /\ \A i, j \in 1..Len(keyVariants) : i # j => keyVariants[i] # keyVariants[j]
    /\ \A i, j \in 1..Len(calls) : i # j => calls[i].url # calls[j].url
    /\ Len(calls) - Len(LoopCalls) <= 1
    /\ Len(calls) <= 6 + 1

IsResolution(r) == r.type # "availableconstraint"

\* the resolution has ended in SUCCESS or in EXHAUSTED
Resolved == Done /\ response.status \in { 200, 404 }

\* C25: every resolution makes at most one call per generated variant (at
\* most 6) plus at most one DataMapper or World Bank call, and never calls a
\* variant or a URL twice; as long as it has not ended it has not begun or
\* waits for the one call it has outstanding, and when it has ended it has
\* ended in SUCCESS (200) or EXHAUSTED (404).
ResolutionTerminates ==
    IsResolution(req) =>
        /\ BoundedCalls
        /\ IF Done THEN Resolved
           ELSE \/ pc = "start" /\ Len(calls) = 0
                \/ /\ pc \in { "datamapper", "worldbank", "sdmx" }
                   /\ Len(calls) = Len(settled) + 1

(***************************************************************************)
(* Further properties of generateKeyVariants.                              *)
(***************************************************************************)
\* for a 3-segment key f.area.indicator: the area-length variants, the
\* dimension-order swaps and the variant without frequency
AreaLengthVariants ==
    LET f == KeyParts[1]
        area == KeyParts[2]
        indicator == KeyParts[3]
    IN  IF Len(area) = 3
        THEN { f \o << "." >> \o SubSeq(area, 1, 2) \o << "." >> \o indicator }
        ELSE IF Len(area) = 2
        THEN { f \o << "." >> \o area \o << "A", "." >> \o indicator,
               f \o << "." >> \o area \o << "S", "." >> \o indicator }
        ELSE { }

OrderSwaps ==
    { KeyParts[1] \o << "." >> \o KeyParts[3] \o << "." >> \o KeyParts[2],
      KeyParts[2] \o << "." >> \o KeyParts[3] \o << "." >> \o KeyParts[1] }

FrequencyDropped == KeyParts[2] \o << "." >> \o KeyParts[3]

\* the place of a variant in the priority order: the first class it is in
PriorityOf(variant) ==
    IF variant = req.key THEN 1
    ELSE IF variant \in AreaLengthVariants THEN 2
    ELSE IF variant \in OrderSwaps THEN 3
    ELSE IF variant = FrequencyDropped THEN 4
    ELSE 5

\* C26: for a 3-segment key the list is made of the key, the area-length
\* variants, the dimension-order swaps and the variant without frequency,
\* each of them present, in this order of classes: the key is first and the
\* variant without frequency is last.
VariantPriorityOrder ==
    (pc = "generated" /\ Len(KeyParts) = 3) =>
        /\ keyVariants[1] = req.key
        /\ keyVariants[Len(keyVariants)] = FrequencyDropped
        /\ \A v \in { req.key, FrequencyDropped } \cup AreaLengthVariants \cup OrderSwaps :
             \E i \in 1..Len(keyVariants) : keyVariants[i] = v
        /\ \A i \in 1..Len(keyVariants) : PriorityOf(keyVariants[i]) <= 4
        /\ \A i, j \in 1..Len(keyVariants) :
             i < j => PriorityOf(keyVariants[i]) <= PriorityOf(keyVariants[j])

\* a key with a 2-letter area whose six variants all differ
VariantPriorityOrderWitness ==
    /\ pc = "generated"
    /\ Len(KeyParts) = 3 /\ Len(KeyParts[2]) = 2
    /\ Len(keyVariants) = 6
    /\ PriorityOf(keyVariants[2]) = 2 /\ PriorityOf(keyVariants[3]) = 2
    /\ PriorityOf(keyVariants[4]) = 3 /\ PriorityOf(keyVariants[5]) = 3

(***************************************************************************)
(* Further properties of handler: request parsing and normalizeData.       *)
(***************************************************************************)
\* C27: handler ends every request by returning an envelope with meta and
\* attempts, never by throwing into imf3Adapter's catch; a World Bank data
\* request whose key has no area segment ends with a logged attempt and the
\* exhaustion response.
HandlerNeverThrows ==
    Done =>
        /\ response.status # 500
        /\ { "meta", "attempts" } \subseteq DOMAIN response.body
        /\ (IsWorldBankData(req) /\ ~WbKeyHasCountry(req.key)) =>
             /\ response.status = 404
             /\ Len(response.body.attempts) >= 1
             /\ response.body.data = << >>

\* the points of the first shape parser that runs to its end on json, every
\* parser starting from an empty list
OneParserResult(json) ==
    IF ~Truthy(json) THEN << >>
    ELSE IF CompactStage(json, << >>).returned
    THEN SortByDate(CompactStage(json, << >>).results)
    ELSE IF AlternateStage(json, << >>).returned
    THEN SortByDate(AlternateStage(json, << >>).results)
    ELSE << >>

\* C28: the points normalizeData returns come from exactly one shape parser:
\* what a parser pushed before it failed is neither returned nor mixed with
\* the points of a later parser.
PointsFromOneParser ==
    /\ \A i \in 1..Len(LoopSettled) :
         ~SdmxThrew(LoopSettled[i]) =>
             SeriesOf(LoopSettled[i]) = OneParserResult(fetchResource(LoopSettled[i]).json)
    /\ LoopSucceeded => response.body.data = OneParserResult(response.body.raw)

(***************************************************************************)
(* Further properties of the Dashboard.                                    *)
(***************************************************************************)
\* the run for the current selection has ended
LatestRunEnded ==
    /\ Len(effects) > 0
    /\ effects[Len(effects)].sel = selection
    /\ effects[Len(effects)].pc = "done"

\* C29: once the resolution for the current selection has ended without data
\* (an error is shown: exhaustion, server-reported error, fetch failure or no
\* point), chartData is empty; it does not hold the series of an earlier
\* selection.
ChartBelongsToSelection ==
    (LatestRunEnded /\ error # Null) => chartData = << >>

\* no run of the effect is waiting for its fetch
NoneInFlight == \A i \in DOMAIN effects : effects[i].pc # "fetch"

\* the run of the last commit has come to its end
LatestResolved == Len(effects) > 0 /\ effects[Len(effects)].pc = "done"

\* C30: once every request in flight has completed, loading is false; the run
\* for the latest selection clears loading whatever the aborted runs still do
\* or have done, and loading is true only while that run waits for its fetch.
LoadingCleared ==
    /\ NoneInFlight => ~loading
    /\ LatestResolved => ~loading
    /\ loading => Len(effects) > 0 /\ effects[Len(effects)].pc = "fetch"

\* the run of an earlier selection was aborted by a run that the cache
\* served at once, and ended after it; loading is false
LoadingClearedWitness ==
    /\ Len(effects) > 1
    /\ effects[Len(effects)].cached
    /\ effects[Len(effects) - 1].pc = "abandoned"
    /\ NoneInFlight
    /\ ~loading

====
